---- MODULE Spec2Model ----
(***************************************************************************)
(* pr-previews: chat-command driven controller for per-PR preview          *)
(* environments.  The model covers the webhook dispatch with its           *)
(* permission gate, the preview / cleanup / status handlers of             *)
(* CommandServiceK8s, the K8sService gateway calls they make, and the      *)
(* cluster objects those calls act on.  Every cluster call is one atomic   *)
(* step of the request that makes it; requests interleave freely.          *)
(***************************************************************************)
EXTENDS Integers, Sequences, FiniteSets, TLC

\* number of requests the server handles at the same time
MaxInFlight == 2

VARIABLES
    webhook,     \* which GitHubWebhook build is deployed
    namespaces,  \* cluster: the namespace objects
    resources,   \* cluster: the namespaced objects (Deployment, Service, ConfigMap)
    deploymentStatus, \* cluster: the Status (replica counters) of each Deployment
    pc,          \* per request: position in its handler
    cmd,         \* per request: the parsed types.Command
    loc,         \* per request: the handler's local variables
    calls,       \* per request: the cluster / file calls it has made, in order
    resp,        \* per request: the types.CommandResponse it returns
    query,       \* per request: the query parameters of the HTTP request
    ctxDone,     \* per request: whether the request's context has been cancelled
    waits        \* the WaitForDeployment goroutines that are running or have ended

vars == <<webhook, namespaces, resources, deploymentStatus, pc, cmd, loc, calls, resp,
          query, ctxDone, waits>>

Procs == 1..MaxInFlight

\* number of WaitForDeployment goroutines that exist at the same time
MaxWaits == 2

WaitIds == 1..MaxWaits

\* number of polls of one wait that fit in its timeout
MaxPolls == 2

-----------------------------------------------------------------------------
(* Strings are sequences of characters, so that formatting and replacing   *)
(* are computed rather than assumed.  The fixed prefix "preview-pr-" and   *)
(* the directory and extension of a path are kept as one element each.     *)

Ascii == <<"-", "/", "0", "1", "2", "3", "4", "5", "6", "7", "8", "9",
           "a", "b", "d", "e", "f", "g", "h", "i", "l", "n", "o", "p", "s",
           "t", "u", "w", "x", "preview-pr-">>

Ord(c) == CHOOSE i \in 1..Len(Ascii) : Ascii[i] = c

Digit == <<"0", "1", "2", "3", "4", "5", "6", "7", "8", "9">>

RECURSIVE FormatInt(_)
FormatInt(n) ==
    IF n < 10 THEN <<Digit[n + 1]>>
    ELSE Append(FormatInt(n \div 10), Digit[(n % 10) + 1])

ReplaceAll(s, old, new) == [i \in 1..Len(s) |-> IF s[i] = old THEN new ELSE s[i]]

\* byte-wise order of two strings, as the cluster store orders object names
RECURSIVE StrLess(_, _)
StrLess(a, b) ==
    IF a = <<>> THEN b # <<>>
    ELSE IF b = <<>> THEN FALSE
    ELSE IF a[1] = b[1] THEN StrLess(Tail(a), Tail(b))
    ELSE Ord(a[1]) < Ord(b[1])

-----------------------------------------------------------------------------
(* Inputs                                                                  *)

coreTeam == {"abdullahainun"}

Users == {"abdullahainun", "testuser"}

\* the webhook passes 123; the handlers take any cmd.PRNumber
PRNumbers == {7, 123}

nginx == <<"n", "g", "i", "n", "x">>
nginxTest == <<"n", "g", "i", "n", "x", "-", "t", "e", "s", "t">>
ghost == <<"g", "h", "o", "s", "t">>
app == <<"a", "p", "p">>
web == <<"w", "e", "b">>
NoService == <<>>

\* two targets of the command grammar [a-zA-Z0-9/-]+ that differ in one
\* character
aSlashB == <<"a", "/", "b">>
aDashB == <<"a", "-", "b">>

Targets == {NoService, ghost, app, web}

CommandTypes == {"help", "status", "plan", "preview", "cleanup"}

Webhooks == {"basic", "enhanced"}

\* the repository checkout the enhanced preview looks manifests up in:
\* k8s/app.yaml holds a workload, a service and two documents that
\* ingestion skips; deploy/web.yaml holds one workload
\* the API version the typed object of a kind belongs to
GroupVersion(kind) == IF kind = "Deployment" THEN "apps/v1" ELSE "v1"

\* a document of a manifest: its kind and metadata.name, whether its body
\* decodes, its apiVersion, and what its text is like: "plain", "blank"
\* (white space only) or "dashes" (one of its lines holds --- inside)
Doc(kind, name, valid) ==
    [kind |-> kind, name |-> name, valid |-> valid, apiVersion |-> GroupVersion(kind),
     text |-> "plain"]

\* further manifests: k8s/db.yaml is clean, k8s/log.yaml has a workload whose
\* body does not decode, k8s/api.yaml declares its workload in an older API
\* version that the client's scheme also knows
db == <<"d", "b">>
log == <<"l", "o", "g">>
api == <<"a", "p", "i">>

\* k8s/old.yaml opens with a document without kind and declares its
\* Deployment in the API version apps/v1beta1
old == <<"o", "l", "d">>

\* k8s/note.yaml starts with a delimiter line and holds a ConfigMap with
\* --- inside a value, and a Service
note == <<"n", "o", "t", "e">>

\* the empty text before a leading delimiter line or between two of them
Blank == [Doc("", <<>>, FALSE) EXCEPT !.text = "blank"]

\* k8s/dup.yaml declares the workload dup twice, with two images
dup == <<"d", "u", "p">>

RepoFiles ==
    (<<"k8s/">> \o app \o <<".yaml">>) :>
        << Doc("Deployment", app, TRUE), Doc("Ingress", app, TRUE),
           Doc("Service", app, TRUE), Doc("", app, TRUE) >>
    @@ (<<"deploy/">> \o web \o <<".yaml">>) :>
        << Doc("Deployment", web, TRUE) >>
    @@ (<<"k8s/">> \o db \o <<".yaml">>) :>
        << Doc("ConfigMap", db, TRUE), Doc("Deployment", db, TRUE), Doc("Service", db, TRUE) >>
    @@ (<<"k8s/">> \o log \o <<".yaml">>) :>
        << Doc("Deployment", log, FALSE), Doc("Service", log, TRUE),
           Doc("Ingress", log, TRUE), Doc("", log, TRUE) >>
    @@ (<<"k8s/">> \o api \o <<".yaml">>) :>
        << Doc("Service", api, TRUE),
           [Doc("Deployment", api, TRUE) EXCEPT !.apiVersion = "apps/v1beta1"] >>
    @@ (<<"k8s/">> \o old \o <<".yaml">>) :>
        << Doc("", old, TRUE),
           Doc("Service", old, TRUE),
           [Doc("Deployment", old, TRUE) EXCEPT !.apiVersion = "apps/v1beta1"] >>
    @@ (<<"k8s/">> \o note \o <<".yaml">>) :>
        << Blank,
           [Doc("ConfigMap", note, TRUE) EXCEPT !.text = "dashes"],
           Blank,
           Doc("Service", note, TRUE) >>
    @@ (<<"k8s/">> \o dup \o <<".yaml">>) :>
        << Doc("Deployment", dup, TRUE) @@ [image |-> "nginx:1"],
           Doc("Service", dup, TRUE),
           Doc("Deployment", dup, TRUE) @@ [image |-> "nginx:2"] >>

FileExists(path) == path \in DOMAIN RepoFiles

-----------------------------------------------------------------------------
(* The cluster, as the client calls of K8sService see it.  A namespace is  *)
(* identified by its name; deleting it removes the objects inside it.      *)
(* Every call may also fail for a reason of its own ("Unavailable": the    *)
(* network, RBAC, a cancelled context).                                    *)

Errors == {"AlreadyExists", "NotFound", "Unavailable", "context canceled"}

\* what a cluster call made with the context of request p can meet: once the
\* context is cancelled the client fails every call made with it
Faults(p) == IF ctxDone[p] THEN {"context canceled"} ELSE {"", "Unavailable"}

NsNamed(nss, name) == {n \in nss : n.name = name}

NamespaceCreateErr_noConflict(nss, name, fault) ==
    IF fault # "" THEN fault ELSE ""

\* Namespaces().Create: the cluster refuses a name that is taken
NamespaceCreateErr(nss, name, fault) ==
    IF fault # "" THEN fault
    ELSE IF NsNamed(nss, name) # {} THEN "AlreadyExists"
    ELSE ""

NamespaceLabels(prNumber, service) ==
    ("preview" :> <<"true">>) @@ ("pr-number" :> FormatInt(prNumber))
    @@ ("service" :> service) @@ ("created-by" :> <<"pr-previews">>)
    @@ ("environment" :> <<"preview">>)

CreateNamespace(nss, name, prNumber, service) ==
    nss \cup {[name |-> name, labels |-> NamespaceLabels(prNumber, service)]}

\* Namespaces().Delete
NamespaceDeleteErr(nss, name, fault) ==
    IF fault # "" THEN fault
    ELSE IF NsNamed(nss, name) = {} THEN "NotFound"
    ELSE ""

DeleteNamespace_keep(nss, name) == nss

DeleteNamespace(nss, name) == nss \ NsNamed(nss, name)

CascadeDelete_none(res, name) == res

CascadeDelete(res, name) == {o \in res : o.ns # name}

\* a label selector "k1=v1,k2=v2" is the map of the pairs it requires
Matches(labels, selector) ==
    \A k \in DOMAIN selector : k \in DOMAIN labels /\ labels[k] = selector[k]

PRSelector_anyPR(prNumber) == ("preview" :> <<"true">>)

PRSelector(prNumber) ==
    ("preview" :> <<"true">>) @@ ("pr-number" :> FormatInt(prNumber))

NsLess(x, y) == StrLess(x.name, y.name)

RECURSIVE SortByName(_)
SortByName(S) ==
    IF S = {} THEN <<>>
    ELSE LET m == CHOOSE x \in S : \A y \in S \ {x} : NsLess(x, y)
         IN <<m>> \o SortByName(S \ {m})

\* Namespaces().List with a label selector: the items in name order
ListNamespaces(nss, selector) ==
    SortByName({n \in nss : Matches(n.labels, selector)})

NsInfo(n) == [name |-> n.name, service |-> n.labels["service"], status |-> "Active"]

\* the result of GetPreviewNamespacesByPR when the list call succeeds
GetPreviewNamespacesByPR(nss, prNumber) ==
    LET items == ListNamespaces(nss, PRSelector(prNumber))
    IN [i \in 1..Len(items) |-> NsInfo(items[i])]

Obj(ns, kind, name) == [ns |-> ns, kind |-> kind, name |-> name]

\* Deployments(ns).Create, Services(ns).Create, ConfigMaps(ns).Create
ObjectCreateErr(nss, res, o, fault) ==
    IF fault # "" THEN fault
    ELSE IF NsNamed(nss, o.ns) = {} THEN "NotFound"
    ELSE IF o \in res THEN "AlreadyExists"
    ELSE ""

\* Status of a Deployment that was just created: no replica yet
NewStatus == [replicas |-> 0, ready_replicas |-> 0]

Deployments(res) == {o \in res : o.kind = "Deployment"}

\* the Status map after the objects changed: a new Deployment starts at
\* NewStatus, a Deployment that is gone has none
Observed(status, res) ==
    [o \in Deployments(res) |-> IF o \in DOMAIN status THEN status[o] ELSE NewStatus]

\* the cluster brings a Deployment up: its one replica is created, then ready
StatusAfter(st) ==
    IF st.replicas = 0 THEN [replicas |-> 1, ready_replicas |-> 0]
    ELSE [replicas |-> 1, ready_replicas |-> 1]

\* Deployments(ns).Get, Services(ns).Get
ObjectGetErr(res, o, fault) ==
    IF fault # "" THEN fault
    ELSE IF o \notin res THEN "NotFound"
    ELSE ""

-----------------------------------------------------------------------------
(* Manifest lookup and ingestion                                           *)

isManifestBasedService_always(serviceName) == TRUE

isManifestBasedService(serviceName) ==
    \E path \in { <<"k8s/">> \o serviceName \o <<".yaml">>,
                  <<"k8s/">> \o serviceName \o <<".yml">>,
                  <<"k8s/">> \o serviceName \o <<"-deployment.yaml">>,
                  <<"kubernetes/">> \o serviceName \o <<".yaml">>,
                  <<"manifests/">> \o serviceName \o <<".yaml">>,
                  <<"deploy/">> \o serviceName \o <<".yaml">> } : FileExists(path)

getManifestPath(serviceName) ==
    LET manifestPaths == << <<"k8s/">> \o serviceName \o <<".yaml">>,
                            <<"k8s/">> \o serviceName \o <<".yml">>,
                            <<"kubernetes/">> \o serviceName \o <<".yaml">>,
                            <<"manifests/">> \o serviceName \o <<".yaml">> >>
        found == {i \in 1..Len(manifestPaths) : FileExists(manifestPaths[i])}
    IN IF found = {} THEN <<>>
       ELSE manifestPaths[CHOOSE i \in found : \A j \in found : i <= j]

SupportedKinds == {"Deployment", "Service", "ConfigMap"}

\* parseDocument: a document without kind or with a body that does not
\* decode is an error, an unsupported kind is skipped; the decoder returns
\* an object of the version the document declares, and the unchecked
\* assertion objRuntime.(*appsv1.Deployment) panics when that is another one
parseDocument(d) ==
    IF d.kind = "" THEN "error"
    ELSE IF d.kind \notin SupportedKinds THEN "skipped"
    ELSE IF ~d.valid THEN "error"
    ELSE IF d.apiVersion # GroupVersion(d.kind) THEN "panic"
    ELSE "appended"

\* as OfKind, but a document named like an earlier one of its kind is dropped
OfKind_unique(docs, kind) ==
    LET all == SelectSeq(docs, LAMBDA d : d.kind = kind /\ parseDocument(d) = "appended")
        first == {i \in DOMAIN all : \A j \in 1..(i - 1) : all[j].name # all[i].name}
        RECURSIVE Pick(_)
        Pick(i) == IF i > Len(all) THEN <<>>
                   ELSE IF i \in first THEN <<all[i]>> \o Pick(i + 1) ELSE Pick(i + 1)
    IN Pick(1)

\* the documents parseDocument appends to the list of a kind
OfKind(docs, kind) == SelectSeq(docs, LAMBDA d : d.kind = kind /\ parseDocument(d) = "appended")

\* the text of a document up to the --- inside one of its lines: kind and
\* metadata come first, the body is cut short
Before(d) == [d EXCEPT !.text = "cut"]

\* the text of a document after the --- inside one of its lines: the end of a
\* value and the lines below it, not a YAML mapping any more
After(d) == [kind |-> "", name |-> d.name, valid |-> FALSE, apiVersion |-> "",
             text |-> "rest"]

\* strings.Split(content, "---") on a file whose delimiter lines separate
\* docs: the text is cut at every ---, between documents and inside a line
RECURSIVE Split(_)
Split(docs) ==
    IF docs = <<>> THEN <<>>
    ELSE IF Head(docs).text = "dashes"
    THEN <<Before(Head(docs)), After(Head(docs))>> \o Split(Tail(docs))
    ELSE <<Head(docs)>> \o Split(Tail(docs))

\* the pieces that are left after TrimSpace and are handed to parseDocument
Documents(filePath) == SelectSeq(Split(RepoFiles[filePath]), LAMBDA d : d.text # "blank")

ParseManifestFile(filePath) ==
    IF ~FileExists(filePath)
    THEN [err |-> "failed to read manifest file", parsed |-> <<>>]
    ELSE IF \E i \in DOMAIN Documents(filePath) : parseDocument(Documents(filePath)[i]) = "panic"
    THEN [err |-> "panic", parsed |-> <<>>]
    ELSE [err |-> "",
          parsed |-> [Deployments |-> OfKind(Documents(filePath), "Deployment"),
                      Services |-> OfKind(Documents(filePath), "Service"),
                      ConfigMaps |-> OfKind(Documents(filePath), "ConfigMap")]]

\* the objects DeployFromParsedManifest applies, in its order
ApplyOrder(namespace, parsed) ==
    LET all == parsed.Deployments \o parsed.Services \o parsed.ConfigMaps
    IN [i \in 1..Len(all) |-> Obj(namespace, all[i].kind, all[i].name)]

\* as ManifestResources, but the config objects are listed first
ManifestResources_configFirst(parsed) ==
    LET all == parsed.ConfigMaps \o parsed.Deployments \o parsed.Services
    IN [i \in 1..Len(all) |-> <<all[i].kind, all[i].name>>]

\* the deployed_resources entries "Kind/name" of a parsed manifest
ManifestResources(parsed) ==
    LET all == parsed.Deployments \o parsed.Services \o parsed.ConfigMaps
    IN [i \in 1..Len(all) |-> <<all[i].kind, all[i].name>>]

-----------------------------------------------------------------------------
(* Requests                                                                *)

NoCmd == [type |-> "", service |-> <<>>, user |-> "", pr |-> 0]

NoLocals == [serviceName |-> <<>>, cleanServiceName |-> <<>>, namespaceName |-> <<>>,
             isManifest |-> FALSE, manifestPath |-> <<>>, deploymentMethod |-> "",
             parsed |-> <<>>, todo |-> <<>>, deployedResources |-> <<>>,
             previewNamespaces |-> <<>>, enrichedPreviews |-> <<>>]

NoData == <<>>

NoQuery == [comment |-> <<>>, user |-> ""]

\* a slot of the goroutine table that holds no goroutine
NoWait == [state |-> "none"]

\* no goroutine is left from earlier requests
NoWaits == \A w \in WaitIds : waits[w] = NoWait

\* the request p returns: net/http cancels its context, and the goroutines
\* that were given c.Request.Context() hold a cancelled context from then on
Cancelled(ws, p) ==
    [w \in WaitIds |-> IF ws[w].state = "polling" /\ ws[w].ctx = p
                       THEN [ws[w] EXCEPT !.ctx = 0]
                       ELSE ws[w]]

NoResp == [success |-> FALSE, message |-> "", cause |-> "", data |-> NoData]

Call(op, target, err) == [op |-> op, target |-> target, err |-> err]

\* a types.CommandResponse; cause is the err.Error() its Content quotes
Response(success, message, cause, data) ==
    [success |-> success, message |-> message, cause |-> cause, data |-> data]

hasDeploymentPermission_anyone(user) == TRUE

hasDeploymentPermission(user) == user \in coreTeam

TypeOK ==
    /\ webhook \in Webhooks
    /\ \A n \in namespaces : DOMAIN n = {"name", "labels"}
    /\ \A o \in resources : o.kind \in SupportedKinds
    /\ pc \in [Procs -> {"idle", "preview", "preview_ns", "preview_parse", "preview_apply",
                         "preview_pod", "preview_svc", "cleanup_list", "cleanup_relist",
                         "cleanup_delete", "status_list", "status_deployment",
                         "status_service", "respond"}]
    /\ \A p \in Procs : cmd[p].type \in CommandTypes \cup {""}
    /\ \A p \in Procs : resp[p].success \in BOOLEAN

Init ==
    /\ webhook \in Webhooks
    /\ namespaces = {[name |-> <<"d", "e", "f", "a", "u", "l", "t">>, labels |-> <<>>]}
    /\ resources = {}
    /\ deploymentStatus = [o \in {} |-> NewStatus]
    /\ pc = [p \in Procs |-> "idle"]
    /\ cmd = [p \in Procs |-> NoCmd]
    /\ loc = [p \in Procs |-> NoLocals]
    /\ calls = [p \in Procs |-> <<>>]
    /\ resp = [p \in Procs |-> NoResp]
    /\ query = [p \in Procs |-> NoQuery]
    /\ ctxDone = [p \in Procs |-> FALSE]
    /\ waits = [w \in WaitIds |-> NoWait]

\* the handler of request p returns response r
Return(p, r) ==
    /\ resp' = [resp EXCEPT ![p] = r]
    /\ pc' = [pc EXCEPT ![p] = "respond"]

Goto(p, label) ==
    /\ pc' = [pc EXCEPT ![p] = label]
    /\ UNCHANGED resp

Record(p, op, target, err) ==
    calls' = [calls EXCEPT ![p] = Append(@, Call(op, target, err))]

\* GitHubWebhook: a parsed command arrives and is dispatched on its type;
\* preview and cleanup pass the permission gate first
\* CommandService.getUserPermissions
getUserPermissions(user) ==
    [can_read |-> TRUE, can_deploy |-> user \in coreTeam, is_core |-> user \in coreTeam]

\* as handleHelp, but plan is not among the commands it lists
handleHelp_noPlan(user) ==
    Response(TRUE, "Help information", "",
             ("available_commands" :> <<"help", "status", "preview", "cleanup">>)
             @@ ("user_permissions" :> getUserPermissions(user)))

\* CommandService.handleHelp
handleHelp(user) ==
    Response(TRUE, "Help information", "",
             ("available_commands" :> <<"help", "status", "plan", "preview", "cleanup">>)
             @@ ("user_permissions" :> getUserPermissions(user)))

allChangedServices == <<"all changed services">>

\* as handlePlan, but a plan without a target fails
handlePlan_needsTarget(service, prNumber) ==
    Response(service # NoService, "Deployment plan generated", "",
             ("services" :> << IF service = NoService THEN allChangedServices ELSE service >>)
             @@ ("pr_number" :> prNumber) @@ ("safe_to_run" :> TRUE))

\* CommandService.handlePlan
handlePlan(service, prNumber) ==
    Response(TRUE, "Deployment plan generated", "",
             ("services" :> << IF service = NoService THEN allChangedServices ELSE service >>)
             @@ ("pr_number" :> prNumber) @@ ("safe_to_run" :> TRUE))

\* ---- comment parsing: text is a sequence of characters ----

\* the vertical tab: white space to strings.TrimSpace, not matched by \s
VT == "<VT>"

\* the characters the class \s of the patterns matches
ReSpace == {" ", "\t", "\n", "\r", "\f"}

\* the characters strings.TrimSpace removes
UnicodeSpace == ReSpace \cup {VT}

\* the characters the class [a-zA-Z0-9/-] of the patterns matches
TargetChars ==
    {"a", "b", "c", "d", "e", "f", "g", "h", "i", "j", "k", "l", "m", "n", "o", "p", "q",
     "r", "s", "t", "u", "v", "w", "x", "y", "z",
     "A", "B", "C", "D", "E", "F", "G", "H", "I", "J", "K", "L", "M", "N", "O", "P", "Q",
     "R", "S", "T", "U", "V", "W", "X", "Y", "Z",
     "0", "1", "2", "3", "4", "5", "6", "7", "8", "9", "/", "-"}

\* how many leading characters of s belong to class
RECURSIVE LeadingCount(_, _)
LeadingCount(s, class) ==
    IF s = <<>> \/ Head(s) \notin class THEN 0 ELSE 1 + LeadingCount(Tail(s), class)

RECURSIVE TrailingCount(_, _)
TrailingCount(s, class) ==
    IF s = <<>> \/ s[Len(s)] \notin class
    THEN 0
    ELSE 1 + TrailingCount(SubSeq(s, 1, Len(s) - 1), class)

Drop(s, n) == SubSeq(s, n + 1, Len(s))

TrimSpace(s) ==
    LET t == Drop(s, LeadingCount(s, UnicodeSpace))
    IN SubSeq(t, 1, Len(t) - TrailingCount(t, UnicodeSpace))

HasPrefix(s, prefix) ==
    Len(s) >= Len(prefix) /\ SubSeq(s, 1, Len(prefix)) = prefix

\* the five patterns: the command word, and whether the pattern has the
\* optional group (?:\s+([a-zA-Z0-9/-]+))? between the word and \s*$
patterns_previewAsPlan ==
    [help |-> [word |-> <<"/", "h", "e", "l", "p">>, group |-> FALSE],
     status |-> [word |-> <<"/", "s", "t", "a", "t", "u", "s">>, group |-> FALSE],
     plan |-> [word |-> <<"/", "p", "l", "a", "n">>, group |-> TRUE],
     preview |-> [word |-> <<"/", "p", "l", "a", "n">>, group |-> TRUE],
     cleanup |-> [word |-> <<"/", "c", "l", "e", "a", "n", "u", "p">>, group |-> FALSE]]

patterns_allTakeTarget ==
    [help |-> [word |-> <<"/", "h", "e", "l", "p">>, group |-> TRUE],
     status |-> [word |-> <<"/", "s", "t", "a", "t", "u", "s">>, group |-> TRUE],
     plan |-> [word |-> <<"/", "p", "l", "a", "n">>, group |-> TRUE],
     preview |-> [word |-> <<"/", "p", "r", "e", "v", "i", "e", "w">>, group |-> TRUE],
     cleanup |-> [word |-> <<"/", "c", "l", "e", "a", "n", "u", "p">>, group |-> TRUE]]

patterns ==
    [help |-> [word |-> <<"/", "h", "e", "l", "p">>, group |-> FALSE],
     status |-> [word |-> <<"/", "s", "t", "a", "t", "u", "s">>, group |-> FALSE],
     plan |-> [word |-> <<"/", "p", "l", "a", "n">>, group |-> TRUE],
     preview |-> [word |-> <<"/", "p", "r", "e", "v", "i", "e", "w">>, group |-> TRUE],
     cleanup |-> [word |-> <<"/", "c", "l", "e", "a", "n", "u", "p">>, group |-> FALSE]]

NoMatch == [matched |-> FALSE, group |-> <<>>]

\* pattern.FindStringSubmatch(comment): the pattern is anchored at both ends
\* and its classes are disjoint, so a text matches in one way at most
FindStringSubmatch(pattern, comment) ==
    IF ~HasPrefix(comment, pattern.word) THEN NoMatch
    ELSE LET rest == Drop(comment, Len(pattern.word))
             gap == LeadingCount(rest, ReSpace)
             token == LeadingCount(Drop(rest, gap), TargetChars)
             tail == LeadingCount(Drop(rest, gap + token), ReSpace)
         IN IF gap = Len(rest) THEN [matched |-> TRUE, group |-> <<>>]
            ELSE IF pattern.group /\ gap > 0 /\ token > 0 /\ gap + token + tail = Len(rest)
            THEN [matched |-> TRUE, group |-> SubSeq(rest, gap + 1, gap + token)]
            ELSE NoMatch

\* the command types whose pattern matches the trimmed comment
Matching(commentBody) ==
    {t \in DOMAIN patterns : FindStringSubmatch(patterns[t], TrimSpace(commentBody)).matched}

\* ParseCommand returns at the first pattern that matches, and the patterns
\* are ranged over in map order, which Go does not fix: the results it can
\* return are one for every pattern that matches
ParseCommand_helpByDefault(commentBody, user, prNumber) ==
    LET comment == TrimSpace(commentBody)
        hits == IF Matching(commentBody) = {} THEN {"help"} ELSE Matching(commentBody)
    IN {[cmd |-> [type |-> t,
                  service |-> FindStringSubmatch(patterns[t], comment).group,
                  user |-> user, pr |-> prNumber],
         err |-> ""] : t \in hits}

ParseCommand_lowerCase(commentBody, user, prNumber) ==
    LET comment == TrimSpace(commentBody)
        Lower(c) == CASE c = "A" -> "a" [] c = "H" -> "h" [] OTHER -> c
    IN IF Matching(commentBody) = {}
       THEN {[cmd |-> NoCmd, err |-> "unknown command"]}
       ELSE {[cmd |-> [type |-> t,
                       service |-> LET g == FindStringSubmatch(patterns[t], comment).group
                                   IN [i \in 1..Len(g) |-> Lower(g[i])],
                       user |-> user, pr |-> prNumber],
              err |-> ""] : t \in Matching(commentBody)}

ParseCommand(commentBody, user, prNumber) ==
    LET comment == TrimSpace(commentBody)
    IN IF Matching(commentBody) = {}
       THEN {[cmd |-> NoCmd, err |-> "unknown command"]}
       ELSE {[cmd |-> [type |-> t,
                       service |-> FindStringSubmatch(patterns[t], comment).group,
                       user |-> user, pr |-> prNumber],
              err |-> ""] : t \in Matching(commentBody)}

Dispatch(p, type, service, user, prNumber) ==
    /\ pc[p] = "idle"
    /\ cmd' = [cmd EXCEPT ![p] = [type |-> type, service |-> service,
                                  user |-> user, pr |-> prNumber]]
    /\ IF type = "help" THEN Return(p, handleHelp(user))
       ELSE IF type = "plan" THEN Return(p, handlePlan(service, prNumber))
       ELSE IF type = "status" THEN Goto(p, "status_list")
       ELSE IF ~hasDeploymentPermission(user)
       THEN Return(p, Response(FALSE, "Access denied", "", NoData))
       ELSE IF type = "preview" THEN Goto(p, "preview")
       ELSE Goto(p, "cleanup_list")
    /\ UNCHANGED <<webhook, ctxDone, waits, namespaces, resources, deploymentStatus, loc, calls>>

\* the commands a run receives: any of the given types, targets, users and PRs
\* (only preview and plan take a target: the other patterns have none)
Request(p, types, targets, users, prNumbers) ==
    \E type \in types, service \in targets, user \in users, prNumber \in prNumbers :
        /\ type \notin {"preview", "plan"} => service = NoService
        /\ Dispatch(p, type, service, user, prNumber)
        /\ UNCHANGED query

GitHubWebhook(p) == Request(p, CommandTypes, Targets, Users, PRNumbers)

\* the webhook from the query string on: the comment and the user as the
\* HTTP request carries them
GitHubWebhookQuery(p, comments, users) ==
    \E commentBody \in comments, u \in users :
        /\ pc[p] = "idle"
        /\ query' = [query EXCEPT ![p] = [comment |-> commentBody, user |-> u]]
        /\ IF commentBody = <<>>
           THEN /\ Return(p, Response(TRUE, "GitHub webhook received", "", NoData))
                /\ UNCHANGED <<webhook, ctxDone, waits, namespaces, resources,
                               deploymentStatus, cmd, loc, calls>>
           ELSE LET user == IF u = "" THEN "testuser" ELSE u
                IN \E r \in ParseCommand(commentBody, user, 123) :
                     IF r.err # ""
                     THEN /\ Return(p, Response(FALSE, "Command parsing failed", r.err, NoData))
                          /\ UNCHANGED <<webhook, ctxDone, waits, namespaces, resources,
                                         deploymentStatus, cmd, loc, calls>>
                     ELSE Dispatch(p, r.cmd.type, r.cmd.service, r.cmd.user, r.cmd.pr)

-----------------------------------------------------------------------------
(* preview                                                                 *)

NamespaceName(prNumber, cleanServiceName) ==
    <<"preview-pr-">> \o FormatInt(prNumber) \o <<"-">> \o cleanServiceName

\* HandlePreviewK8s up to its first cluster call
HandlePreviewK8s(p) ==
    /\ pc[p] = "preview"
    /\ webhook = "basic"
    /\ LET serviceName == IF cmd[p].service = <<>> THEN nginxTest ELSE cmd[p].service
           cleanServiceName == ReplaceAll(serviceName, "/", "-")
       IN loc' = [loc EXCEPT ![p] = [@ EXCEPT
                    !.serviceName = serviceName,
                    !.cleanServiceName = cleanServiceName,
                    !.namespaceName = NamespaceName(cmd[p].pr, cleanServiceName)]]
    /\ Goto(p, "preview_ns")
    /\ UNCHANGED <<webhook, query, ctxDone, waits, namespaces, resources, deploymentStatus, cmd, calls>>

\* HandlePreviewK8sEnhanced up to its first cluster call: the target, the
\* deployment method and the service-not-found exit
HandlePreviewK8sEnhanced(p) ==
    /\ pc[p] = "preview"
    /\ webhook = "enhanced"
    /\ LET serviceName == IF cmd[p].service = <<>> THEN nginx ELSE cmd[p].service
           isManifest == isManifestBasedService(serviceName)
           cleanServiceName == ReplaceAll(serviceName, "/", "-")
       IN IF serviceName # nginx /\ ~isManifest
          THEN /\ Return(p, Response(FALSE, "Service not found", "", NoData))
               /\ UNCHANGED loc
          ELSE /\ loc' = [loc EXCEPT ![p] = [@ EXCEPT
                    !.serviceName = serviceName,
                    !.isManifest = isManifest,
                    !.manifestPath = IF isManifest THEN getManifestPath(serviceName) ELSE <<>>,
                    !.deploymentMethod = IF isManifest THEN "manifest-deployment"
                                         ELSE "default (nginx:alpine)",
                    !.cleanServiceName = cleanServiceName,
                    !.namespaceName = NamespaceName(cmd[p].pr, cleanServiceName)]]
               /\ Goto(p, "preview_ns")
    /\ UNCHANGED <<webhook, query, ctxDone, waits, namespaces, resources, deploymentStatus, cmd, calls>>

\* the Data of a successful preview, by handler
PreviewData(c, l, deployedResources) ==
    LET base == ("service" :> l.serviceName) @@ ("clean_service_name" :> l.cleanServiceName)
                @@ ("namespace" :> l.namespaceName) @@ ("pr_number" :> c.pr)
                @@ ("status" :> "deploying")
    IN IF webhook = "basic" THEN base
       ELSE base @@ ("deployment_method" :> l.deploymentMethod)
                 @@ ("manifest_detected" :> l.isManifest)
                 @@ ("manifest_path" :> l.manifestPath)
                 @@ ("deployed_resources" :> deployedResources)

PreviewStarted(p, deployedResources) ==
    Return(p, Response(TRUE, "Preview deployment started", "",
                       PreviewData(cmd[p], loc[p], deployedResources)))

\* as PreviewCreateNamespace, but a namespace that exists is adopted
PreviewCreateNamespace_merge(p) ==
    /\ pc[p] = "preview_ns"
    /\ \E fault \in Faults(p) :
         LET name == loc[p].namespaceName
             err == NamespaceCreateErr(namespaces, name, fault)
         IN /\ Record(p, "CreateNamespace", name, err)
            /\ IF err = "Unavailable"
               THEN /\ Return(p, Response(FALSE, "Preview deployment failed", err, NoData))
                    /\ UNCHANGED namespaces
               ELSE /\ namespaces' = IF err = "" THEN CreateNamespace(namespaces, name, cmd[p].pr,
                                                                      loc[p].serviceName)
                                     ELSE namespaces
                    /\ Goto(p, IF loc[p].isManifest THEN "preview_parse" ELSE "preview_pod")
    /\ UNCHANGED <<webhook, query, ctxDone, waits, resources, deploymentStatus, cmd, loc>>

\* as PreviewCreateNamespace, but a call the cluster did not answer is made again
PreviewCreateNamespace_retry(p) ==
    /\ pc[p] = "preview_ns"
    /\ \E fault \in Faults(p) :
         LET name == loc[p].namespaceName
             err == NamespaceCreateErr(namespaces, name, fault)
         IN /\ Record(p, "CreateNamespace", name, err)
            /\ IF err = "Unavailable"
               THEN /\ Goto(p, "preview_ns")
                    /\ UNCHANGED namespaces
               ELSE IF err # ""
               THEN /\ Return(p, Response(FALSE, "Preview deployment failed", err, NoData))
                    /\ UNCHANGED namespaces
               ELSE /\ namespaces' = CreateNamespace(namespaces, name, cmd[p].pr,
                                                     loc[p].serviceName)
                    /\ Goto(p, IF loc[p].isManifest THEN "preview_parse" ELSE "preview_pod")
    /\ UNCHANGED <<webhook, query, ctxDone, waits, resources, deploymentStatus, cmd, loc>>

\* Step 1: create the namespace
PreviewCreateNamespace(p) ==
    /\ pc[p] = "preview_ns"
    /\ \E fault \in Faults(p) :
         LET name == loc[p].namespaceName
             err == NamespaceCreateErr(namespaces, name, fault)
         IN /\ Record(p, "CreateNamespace", name, err)
            /\ IF err # ""
               THEN /\ Return(p, Response(FALSE, "Preview deployment failed", err, NoData))
                    /\ UNCHANGED namespaces
               ELSE /\ namespaces' = CreateNamespace(namespaces, name, cmd[p].pr,
                                                     loc[p].serviceName)
                    /\ Goto(p, IF loc[p].isManifest THEN "preview_parse" ELSE "preview_pod")
    /\ UNCHANGED <<webhook, query, ctxDone, waits, resources, deploymentStatus, cmd, loc>>

\* Step 2, manifest method: read and ingest the manifest file
PreviewParseManifest(p) ==
    /\ pc[p] = "preview_parse"
    /\ LET r == ParseManifestFile(loc[p].manifestPath)
           todo == ApplyOrder(loc[p].namespaceName, r.parsed)
       IN /\ Record(p, "ParseManifestFile", loc[p].manifestPath, r.err)
          /\ IF r.err = "panic"
             THEN /\ Return(p, Response(FALSE, "Internal Server Error", r.err, NoData))
                  /\ UNCHANGED loc
             ELSE IF r.err # ""
             THEN /\ Return(p, Response(FALSE, "Manifest parsing failed", r.err, NoData))
                  /\ UNCHANGED loc
             ELSE /\ loc' = [loc EXCEPT ![p] = [@ EXCEPT !.parsed = r.parsed, !.todo = todo]]
                  /\ IF todo = <<>>
                     THEN PreviewStarted(p, ManifestResources(r.parsed))
                     ELSE Goto(p, "preview_apply")
    /\ UNCHANGED <<webhook, query, ctxDone, waits, namespaces, resources, deploymentStatus, cmd>>

\* DeployFromParsedManifest: one create call per ingested object; the first
\* failure aborts the apply
PreviewDeployFromParsedManifest(p) ==
    /\ pc[p] = "preview_apply"
    /\ loc[p].todo # <<>>
    /\ \E fault \in Faults(p) :
         LET o == Head(loc[p].todo)
             rest == Tail(loc[p].todo)
             err == ObjectCreateErr(namespaces, resources, o, fault)
         IN /\ Record(p, "Create" \o o.kind, o, err)
            /\ IF err # ""
               THEN /\ Return(p, Response(FALSE, "Manifest deployment failed", err, NoData))
                    /\ UNCHANGED <<resources, loc>>
               ELSE /\ resources' = resources \cup {o}
                    /\ loc' = [loc EXCEPT ![p].todo = rest]
                    /\ IF rest = <<>>
                       THEN PreviewStarted(p, ManifestResources(loc[p].parsed))
                       ELSE Goto(p, "preview_apply")
    /\ deploymentStatus' = Observed(deploymentStatus, resources')
    /\ UNCHANGED <<webhook, query, ctxDone, waits, namespaces, cmd>>

\* as PreviewDeployTestPod, but the error is dropped and the service is created anyway
PreviewDeployTestPod_continue(p) ==
    /\ pc[p] = "preview_pod"
    /\ \E fault \in Faults(p) :
         LET o == Obj(loc[p].namespaceName, "Deployment", loc[p].cleanServiceName)
             err == ObjectCreateErr(namespaces, resources, o, fault)
         IN /\ Record(p, "CreateDeployment", o, err)
            /\ resources' = IF err = "" THEN resources \cup {o} ELSE resources
            /\ Goto(p, "preview_svc")
    /\ deploymentStatus' = Observed(deploymentStatus, resources')
    /\ UNCHANGED <<webhook, query, ctxDone, waits, namespaces, cmd, loc>>

\* Step 2, default method: DeployTestPod
PreviewDeployTestPod(p) ==
    /\ pc[p] = "preview_pod"
    /\ \E fault \in Faults(p) :
         LET o == Obj(loc[p].namespaceName, "Deployment", loc[p].cleanServiceName)
             err == ObjectCreateErr(namespaces, resources, o, fault)
         IN /\ Record(p, "CreateDeployment", o, err)
            /\ IF err # ""
               THEN /\ Return(p, Response(FALSE, "Pod deployment failed", err, NoData))
                    /\ UNCHANGED resources
               ELSE /\ resources' = resources \cup {o}
                    /\ Goto(p, "preview_svc")
    /\ deploymentStatus' = Observed(deploymentStatus, resources')
    /\ UNCHANGED <<webhook, query, ctxDone, waits, namespaces, cmd, loc>>

\* the goroutine table with a new WaitForDeployment(ctx, namespace,
\* deploymentName, 3) in its first free slot; ctx is the context of request p
Go(ws, p, namespace, deploymentName) ==
    LET w == CHOOSE w \in WaitIds :
                 /\ ws[w] = NoWait
                 /\ \A v \in WaitIds : ws[v] = NoWait => w <= v
    IN [ws EXCEPT ![w] = [state |-> "polling", namespace |-> namespace,
                          name |-> deploymentName, polls |-> 0, ctx |-> p]]

\* Step 4 of HandlePreviewK8s: go func() { cs.k8s.WaitForDeployment(...) }();
\* HandlePreviewK8sEnhanced has no such step
GoWaitForDeployment(p) ==
    IF webhook = "basic"
    THEN /\ \E w \in WaitIds : waits[w] = NoWait
         /\ waits' = Go(waits, p, loc[p].namespaceName, loc[p].cleanServiceName)
    ELSE UNCHANGED waits

\* as PreviewCreateService, but a failure removes the namespace again
PreviewCreateService_rollback(p) ==
    /\ pc[p] = "preview_svc"
    /\ \E fault \in Faults(p) :
         LET o == Obj(loc[p].namespaceName, "Service", loc[p].cleanServiceName)
             err == ObjectCreateErr(namespaces, resources, o, fault)
         IN /\ Record(p, "CreateService", o, err)
            /\ IF err # ""
               THEN /\ Return(p, Response(FALSE, "Service creation failed", err, NoData))
                    /\ namespaces' = DeleteNamespace(namespaces, loc[p].namespaceName)
                    /\ resources' = CascadeDelete(resources, loc[p].namespaceName)
                    /\ UNCHANGED waits
               ELSE /\ resources' = resources \cup {o}
                    /\ UNCHANGED namespaces
                    /\ GoWaitForDeployment(p)
                    /\ PreviewStarted(p, << <<"Deployment", loc[p].cleanServiceName>>,
                                            <<"Service", loc[p].cleanServiceName>> >>)
    /\ deploymentStatus' = Observed(deploymentStatus, resources')
    /\ UNCHANGED <<webhook, query, ctxDone, cmd, loc>>

\* Step 3, default method: CreateService
PreviewCreateService(p) ==
    /\ pc[p] = "preview_svc"
    /\ \E fault \in Faults(p) :
         LET o == Obj(loc[p].namespaceName, "Service", loc[p].cleanServiceName)
             err == ObjectCreateErr(namespaces, resources, o, fault)
         IN /\ Record(p, "CreateService", o, err)
            /\ IF err # ""
               THEN /\ Return(p, Response(FALSE, "Service creation failed", err, NoData))
                    /\ UNCHANGED resources
                    /\ UNCHANGED waits
               ELSE /\ resources' = resources \cup {o}
                    /\ GoWaitForDeployment(p)
                    /\ PreviewStarted(p, << <<"Deployment", loc[p].cleanServiceName>>,
                                            <<"Service", loc[p].cleanServiceName>> >>)
    /\ deploymentStatus' = Observed(deploymentStatus, resources')
    /\ UNCHANGED <<webhook, query, ctxDone, namespaces, cmd, loc>>

-----------------------------------------------------------------------------
(* cleanup                                                                 *)

Names(infos) == [i \in 1..Len(infos) |-> infos[i].name]

\* the Data of a completed cleanup: the names of the first listing
CleanupData(prNumber, previewNamespaces) ==
    ("pr_number" :> prNumber) @@ ("cleaned_namespaces" :> Names(previewNamespaces))
    @@ ("total_cleaned" :> Len(Names(previewNamespaces)))

CleanupCompleted(p) ==
    Return(p, Response(TRUE, "Cleanup completed", "",
                       CleanupData(cmd[p].pr, loc[p].previewNamespaces)))

\* HandleCleanupK8s: list the namespaces of the PR; nothing to do when none
CleanupList(p) ==
    /\ pc[p] = "cleanup_list"
    /\ \E fault \in Faults(p) :
         LET err == IF fault # "" THEN fault ELSE ""
             previewNamespaces == GetPreviewNamespacesByPR(namespaces, cmd[p].pr)
         IN /\ Record(p, "ListNamespaces", PRSelector(cmd[p].pr), err)
            /\ IF err # ""
               THEN /\ Return(p, Response(FALSE, "Cleanup failed", err, NoData))
                    /\ UNCHANGED loc
               ELSE IF Len(previewNamespaces) = 0
               THEN /\ Return(p, Response(TRUE, "Nothing to cleanup", "", NoData))
                    /\ UNCHANGED loc
               ELSE /\ loc' = [loc EXCEPT ![p].previewNamespaces = previewNamespaces]
                    /\ Goto(p, "cleanup_relist")
    /\ UNCHANGED <<webhook, query, ctxDone, waits, namespaces, resources, deploymentStatus, cmd>>

\* CleanupPreviewNamespaces: its own listing of the namespaces to delete
CleanupRelist(p) ==
    /\ pc[p] = "cleanup_relist"
    /\ \E fault \in Faults(p) :
         LET err == IF fault # "" THEN fault ELSE ""
             items == Names(ListNamespaces(namespaces, PRSelector(cmd[p].pr)))
         IN /\ Record(p, "ListNamespaces", PRSelector(cmd[p].pr), err)
            /\ IF err # ""
               THEN /\ Return(p, Response(FALSE, "Cleanup failed", err, NoData))
                    /\ UNCHANGED loc
               ELSE /\ loc' = [loc EXCEPT ![p].todo = items]
                    /\ IF items = <<>> THEN CleanupCompleted(p)
                       ELSE Goto(p, "cleanup_delete")
    /\ UNCHANGED <<webhook, query, ctxDone, waits, namespaces, resources, deploymentStatus, cmd>>

\* as CleanupDelete, but a failed deletion is skipped and the loop goes on
CleanupDelete_skip(p) ==
    /\ pc[p] = "cleanup_delete"
    /\ loc[p].todo # <<>>
    /\ \E fault \in Faults(p) :
         LET name == Head(loc[p].todo)
             rest == Tail(loc[p].todo)
             err == NamespaceDeleteErr(namespaces, name, fault)
         IN /\ Record(p, "DeleteNamespace", name, err)
            /\ namespaces' = IF err = "" THEN DeleteNamespace(namespaces, name) ELSE namespaces
            /\ resources' = IF err = "" THEN CascadeDelete(resources, name) ELSE resources
            /\ loc' = [loc EXCEPT ![p].todo = rest]
            /\ IF rest = <<>> THEN CleanupCompleted(p)
               ELSE Goto(p, "cleanup_delete")
    /\ deploymentStatus' = Observed(deploymentStatus, resources')
    /\ UNCHANGED <<webhook, query, ctxDone, waits, cmd>>

\* CleanupPreviewNamespaces: delete the next listed namespace, stop at the
\* first failure
CleanupDelete(p) ==
    /\ pc[p] = "cleanup_delete"
    /\ loc[p].todo # <<>>
    /\ \E fault \in Faults(p) :
         LET name == Head(loc[p].todo)
             rest == Tail(loc[p].todo)
             err == NamespaceDeleteErr(namespaces, name, fault)
         IN /\ Record(p, "DeleteNamespace", name, err)
            /\ IF err # ""
               THEN /\ Return(p, Response(FALSE, "Cleanup failed", err, NoData))
                    /\ UNCHANGED <<namespaces, resources, loc>>
               ELSE /\ namespaces' = DeleteNamespace(namespaces, name)
                    /\ resources' = CascadeDelete(resources, name)
                    /\ loc' = [loc EXCEPT ![p].todo = rest]
                    /\ IF rest = <<>> THEN CleanupCompleted(p)
                       ELSE Goto(p, "cleanup_delete")
    /\ deploymentStatus' = Observed(deploymentStatus, resources')
    /\ UNCHANGED <<webhook, query, ctxDone, waits, cmd>>

-----------------------------------------------------------------------------
(* status                                                                  *)

StatusData(prNumber, activePreviews, total) ==
    ("pr_number" :> prNumber) @@ ("active_previews" :> activePreviews)
    @@ ("total_previews" :> total)

\* as GetDeploymentStatus, but it reports the replicas asked for (1), not the Status
GetDeploymentStatus_wanted(status, o) ==
    [name |-> o.name, namespace |-> o.ns,
     replicas |-> 1,
     ready_replicas |-> IF o \in DOMAIN status THEN status[o].ready_replicas ELSE 0]

\* the map GetDeploymentStatus builds from a Deployment it could read
GetDeploymentStatus(status, o) ==
    [name |-> o.name, namespace |-> o.ns,
     replicas |-> IF o \in DOMAIN status THEN status[o].replicas ELSE 0,
     ready_replicas |-> IF o \in DOMAIN status THEN status[o].ready_replicas ELSE 0]

\* as StatusList, but a PR without namespaces is answered as a failure
StatusList_emptyIsError(p) ==
    /\ pc[p] = "status_list"
    /\ \E fault \in Faults(p) :
         LET err == IF fault # "" THEN fault ELSE ""
             previewNamespaces == GetPreviewNamespacesByPR(namespaces, cmd[p].pr)
         IN /\ Record(p, "ListNamespaces", PRSelector(cmd[p].pr), err)
            /\ IF err # "" \/ Len(previewNamespaces) = 0
               THEN /\ Return(p, Response(FALSE, "Failed to get preview status", err, NoData))
                    /\ UNCHANGED loc
               ELSE /\ loc' = [loc EXCEPT ![p] = [@ EXCEPT
                                 !.previewNamespaces = previewNamespaces,
                                 !.todo = previewNamespaces]]
                    /\ Goto(p, "status_deployment")
    /\ UNCHANGED <<webhook, query, ctxDone, waits, namespaces, resources, deploymentStatus, cmd>>

\* as StatusList, but the namespaces come in either order
StatusList_anyOrder(p) ==
    /\ pc[p] = "status_list"
    /\ \E fault \in Faults(p), reversed \in BOOLEAN :
         LET err == IF fault # "" THEN fault ELSE ""
             listed == GetPreviewNamespacesByPR(namespaces, cmd[p].pr)
             previewNamespaces == IF reversed
                                  THEN [i \in 1..Len(listed) |-> listed[Len(listed) + 1 - i]]
                                  ELSE listed
         IN /\ Record(p, "ListNamespaces", PRSelector(cmd[p].pr), err)
            /\ IF err # ""
               THEN /\ Return(p, Response(FALSE, "Failed to get preview status", err, NoData))
                    /\ UNCHANGED loc
               ELSE IF Len(previewNamespaces) = 0
               THEN /\ Return(p, Response(TRUE, "No preview environments found", "",
                                          StatusData(cmd[p].pr, <<>>, 0)))
                    /\ UNCHANGED loc
               ELSE /\ loc' = [loc EXCEPT ![p] = [@ EXCEPT
                                 !.previewNamespaces = previewNamespaces,
                                 !.todo = previewNamespaces]]
                    /\ Goto(p, "status_deployment")
    /\ UNCHANGED <<webhook, query, ctxDone, waits, namespaces, resources, deploymentStatus, cmd>>

\* HandleStatusK8s: list the namespaces of the PR
StatusList(p) ==
    /\ pc[p] = "status_list"
    /\ \E fault \in Faults(p) :
         LET err == IF fault # "" THEN fault ELSE ""
             previewNamespaces == GetPreviewNamespacesByPR(namespaces, cmd[p].pr)
         IN /\ Record(p, "ListNamespaces", PRSelector(cmd[p].pr), err)
            /\ IF err # ""
               THEN /\ Return(p, Response(FALSE, "Failed to get preview status", err, NoData))
                    /\ UNCHANGED loc
               ELSE IF Len(previewNamespaces) = 0
               THEN /\ Return(p, Response(TRUE, "No preview environments found", "",
                                          StatusData(cmd[p].pr, <<>>, 0)))
                    /\ UNCHANGED loc
               ELSE /\ loc' = [loc EXCEPT ![p] = [@ EXCEPT
                                 !.previewNamespaces = previewNamespaces,
                                 !.todo = previewNamespaces]]
                    /\ Goto(p, "status_deployment")
    /\ UNCHANGED <<webhook, query, ctxDone, waits, namespaces, resources, deploymentStatus, cmd>>

\* as StatusGetDeployment, but a namespace whose workload read fails gets no entry
StatusGetDeployment_dropOnError(p) ==
    /\ pc[p] = "status_deployment"
    /\ loc[p].todo # <<>>
    /\ \E fault \in Faults(p) :
         LET ns == Head(loc[p].todo)
             o == Obj(ns.name, "Deployment", ns.service)
             err == ObjectGetErr(resources, o, fault)
             status == GetDeploymentStatus(deploymentStatus, o)
         IN /\ Record(p, "GetDeployment", o, err)
            /\ loc' = [loc EXCEPT ![p].enrichedPreviews =
                         IF err = "" THEN Append(@, ns @@ ("deployment_status" :> status))
                         ELSE @]
    /\ Goto(p, "status_service")
    /\ UNCHANGED <<webhook, query, ctxDone, waits, namespaces, resources, deploymentStatus, cmd>>

\* GetDeploymentStatus of the next namespace, looked up under the service label
StatusGetDeployment(p) ==
    /\ pc[p] = "status_deployment"
    /\ loc[p].todo # <<>>
    /\ \E fault \in Faults(p) :
         LET ns == Head(loc[p].todo)
             o == Obj(ns.name, "Deployment", ns.service)
             err == ObjectGetErr(resources, o, fault)
             status == GetDeploymentStatus(deploymentStatus, o)
             entry == IF err = "" THEN ns @@ ("deployment_status" :> status)
                      ELSE ns
         IN /\ Record(p, "GetDeployment", o, err)
            /\ loc' = [loc EXCEPT ![p].enrichedPreviews = Append(@, entry)]
    /\ Goto(p, "status_service")
    /\ UNCHANGED <<webhook, query, ctxDone, waits, namespaces, resources, deploymentStatus, cmd>>

\* as StatusGetService, but a namespace without its Service is removed
StatusGetService_prune(p) ==
    /\ pc[p] = "status_service"
    /\ loc[p].todo # <<>>
    /\ \E fault \in Faults(p) :
         LET ns == Head(loc[p].todo)
             rest == Tail(loc[p].todo)
             o == Obj(ns.name, "Service", ns.service)
             err == ObjectGetErr(resources, o, fault)
         IN /\ Record(p, "GetService", o, err)
            /\ loc' = [loc EXCEPT ![p].todo = rest]
            /\ namespaces' = IF err = "NotFound" THEN DeleteNamespace(namespaces, ns.name)
                             ELSE namespaces
            /\ resources' = IF err = "NotFound" THEN CascadeDelete(resources, ns.name)
                            ELSE resources
            /\ IF rest = <<>>
               THEN Return(p, Response(TRUE, "Preview environment status", "",
                                       StatusData(cmd[p].pr, loc[p].enrichedPreviews,
                                                  Len(loc[p].previewNamespaces))))
               ELSE Goto(p, "status_deployment")
    /\ deploymentStatus' = Observed(deploymentStatus, resources')
    /\ UNCHANGED <<webhook, query, ctxDone, waits, cmd>>

\* GetServiceInfo of the same namespace; the report is complete after the last one
StatusGetService(p) ==
    /\ pc[p] = "status_service"
    /\ loc[p].todo # <<>>
    /\ \E fault \in Faults(p) :
         LET ns == Head(loc[p].todo)
             rest == Tail(loc[p].todo)
             o == Obj(ns.name, "Service", ns.service)
             err == ObjectGetErr(resources, o, fault)
         IN /\ Record(p, "GetService", o, err)
            /\ loc' = [loc EXCEPT ![p].todo = rest]
            /\ IF rest = <<>>
               THEN Return(p, Response(TRUE, "Preview environment status", "",
                                       StatusData(cmd[p].pr, loc[p].enrichedPreviews,
                                                  Len(loc[p].previewNamespaces))))
               ELSE Goto(p, "status_deployment")
    /\ UNCHANGED <<webhook, query, ctxDone, waits, namespaces, resources, deploymentStatus, cmd>>

-----------------------------------------------------------------------------
(* the readiness wait                                                      *)

\* what a read made with the context of wait w can meet
WaitFaults(w) ==
    IF waits[w].ctx = 0 \/ ctxDone[waits[w].ctx] THEN {"context canceled"}
    ELSE {"", "Unavailable"}

\* the condition of WaitForDeployment on the Status it has read
IsReady(st) == st.ready_replicas = st.replicas /\ st.replicas > 0

\* as WaitForDeployment, but a failed read is taken for a Deployment that is
\* not ready yet, and the wait polls again
WaitForDeployment_retries(w) ==
    /\ waits[w].state = "polling"
    /\ waits[w].polls < MaxPolls
    /\ \E fault \in WaitFaults(w) :
         LET o == Obj(waits[w].namespace, "Deployment", waits[w].name)
             err == ObjectGetErr(resources, o, fault)
         IN waits' = [waits EXCEPT ![w] =
                        IF err = "" /\ IsReady(deploymentStatus[o]) THEN [state |-> "ready"]
                        ELSE [@ EXCEPT !.polls = @ + 1]]
    /\ UNCHANGED <<webhook, query, ctxDone, namespaces, resources, deploymentStatus,
                   pc, cmd, loc, calls, resp>>

\* one poll of wait.PollImmediate: read the Deployment, end on a failed read
\* or on a ready Deployment, poll again otherwise
WaitForDeployment(w) ==
    /\ waits[w].state = "polling"
    /\ waits[w].polls < MaxPolls
    /\ \E fault \in WaitFaults(w) :
         LET o == Obj(waits[w].namespace, "Deployment", waits[w].name)
             err == ObjectGetErr(resources, o, fault)
         IN waits' = [waits EXCEPT ![w] =
                        IF err # "" THEN [state |-> "error", cause |-> err]
                        ELSE IF IsReady(deploymentStatus[o]) THEN [state |-> "ready"]
                        ELSE [@ EXCEPT !.polls = @ + 1]]
    /\ UNCHANGED <<webhook, query, ctxDone, namespaces, resources, deploymentStatus,
                   pc, cmd, loc, calls, resp>>

\* the timeout of wait.PollImmediate expires: ErrWaitTimeout
WaitTimeout(w) ==
    /\ waits[w].state = "polling"
    /\ waits[w].polls = MaxPolls
    /\ waits' = [waits EXCEPT ![w] = [state |-> "timeout"]]
    /\ UNCHANGED <<webhook, query, ctxDone, namespaces, resources, deploymentStatus,
                   pc, cmd, loc, calls, resp>>

\* WaitForDeployment has returned: the goroutine ends, its result is dropped
WaitReturn(w) ==
    /\ waits[w].state \in {"ready", "error", "timeout"}
    /\ waits' = [waits EXCEPT ![w] = NoWait]
    /\ UNCHANGED <<webhook, query, ctxDone, namespaces, resources, deploymentStatus,
                   pc, cmd, loc, calls, resp>>

WaitSteps == \E w \in WaitIds : WaitForDeployment(w) \/ WaitTimeout(w) \/ WaitReturn(w)

-----------------------------------------------------------------------------
\* GitHubWebhook writes the response (c.JSON) and the request ends
Respond(p) ==
    /\ pc[p] = "respond"
    /\ pc' = [pc EXCEPT ![p] = "idle"]
    /\ cmd' = [cmd EXCEPT ![p] = NoCmd]
    /\ loc' = [loc EXCEPT ![p] = NoLocals]
    /\ calls' = [calls EXCEPT ![p] = <<>>]
    /\ resp' = [resp EXCEPT ![p] = NoResp]
    /\ query' = [query EXCEPT ![p] = NoQuery]
    /\ ctxDone' = [ctxDone EXCEPT ![p] = FALSE]
    /\ waits' = Cancelled(waits, p)
    /\ UNCHANGED <<webhook, namespaces, resources, deploymentStatus>>

PreviewSteps(p) ==
    \/ HandlePreviewK8s(p)
    \/ HandlePreviewK8sEnhanced(p)
    \/ PreviewCreateNamespace(p)
    \/ PreviewParseManifest(p)
    \/ PreviewDeployFromParsedManifest(p)
    \/ PreviewDeployTestPod(p)
    \/ PreviewCreateService(p)

CleanupSteps(p) ==
    \/ CleanupList(p)
    \/ CleanupRelist(p)
    \/ CleanupDelete(p)

StatusSteps(p) ==
    \/ StatusList(p)
    \/ StatusGetDeployment(p)
    \/ StatusGetService(p)

\* every command, every input, any interleaving
Next ==
    \/ \E p \in Procs :
        GitHubWebhook(p) \/ PreviewSteps(p) \/ CleanupSteps(p) \/ StatusSteps(p) \/ Respond(p)
    \/ WaitSteps

Spec == Init /\ [][Next]_vars

\* concurrent previews of one PR, every target
PreviewTraffic(p) == NoWaits /\ Request(p, {"preview"}, Targets, Users, {123})

NextPreviews ==
    \/ \E p \in Procs : PreviewTraffic(p) \/ PreviewSteps(p) \/ Respond(p)
    \/ WaitSteps

SpecPreviews == Init /\ [][NextPreviews]_vars

\* concurrent previews and cleanups of one PR: the default target and a
\* manifest-backed one
LifecycleTraffic(p) ==
    NoWaits /\ Request(p, {"preview", "cleanup"}, {NoService, app}, Users, {123})

NextLifecycle ==
    \/ \E p \in Procs : LifecycleTraffic(p) \/ PreviewSteps(p) \/ CleanupSteps(p) \/ Respond(p)
    \/ WaitSteps

SpecLifecycle == Init /\ [][NextLifecycle]_vars

\* concurrent previews and cleanups of two PRs, default target
TwoPRsTraffic(p) == NoWaits /\ Request(p, {"preview", "cleanup"}, {NoService}, Users, PRNumbers)

DefaultPreviewSteps(p) ==
    \/ HandlePreviewK8s(p)
    \/ HandlePreviewK8sEnhanced(p)
    \/ PreviewCreateNamespace(p)
    \/ PreviewDeployTestPod(p)
    \/ PreviewCreateService(p)

NextTwoPRs ==
    \/ \E p \in Procs :
        TwoPRsTraffic(p) \/ DefaultPreviewSteps(p) \/ CleanupSteps(p) \/ Respond(p)
    \/ WaitSteps

SpecTwoPRs == Init /\ [][NextTwoPRs]_vars

\* one command at a time
SeqTraffic(p) ==
    /\ \A q \in Procs : pc[q] = "idle"
    /\ NoWaits
    /\ \/ Request(p, CommandTypes, {NoService, app}, Users, PRNumbers)
       \/ Request(p, {"plan"}, Targets, Users, PRNumbers)

NextSeq ==
    \/ \E p \in Procs :
        SeqTraffic(p) \/ PreviewSteps(p) \/ CleanupSteps(p) \/ StatusSteps(p) \/ Respond(p)
    \/ WaitSteps

SpecSeq == Init /\ [][NextSeq]_vars

\* status requests overlap each other; the cluster changes only between
\* requests: previews and cleanups run alone, Deployments come up in between
Quiet == \A q \in Procs : pc[q] = "idle"

StatusTraffic(p) ==
    /\ \A q \in Procs : pc[q] = "idle" \/ cmd[q].type = "status"
    /\ NoWaits
    /\ Request(p, {"status"}, {NoService}, Users, {123})

MutatingTraffic(p) ==
    /\ Quiet
    /\ NoWaits
    /\ Request(p, {"preview", "cleanup"}, {NoService, app}, coreTeam, {123})

\* the cluster's deployment controller moves the Status of a Deployment on
Rollout ==
    /\ \E o \in DOMAIN deploymentStatus :
         /\ deploymentStatus[o] # StatusAfter(deploymentStatus[o])
         /\ deploymentStatus' = [deploymentStatus EXCEPT ![o] = StatusAfter(@)]
    /\ UNCHANGED <<webhook, query, ctxDone, waits, namespaces, resources, pc, cmd, loc, calls, resp>>

\* the same between requests only
DeploymentController == Quiet /\ Rollout

NextStatus ==
    \/ \E p \in Procs :
         \/ StatusTraffic(p) \/ MutatingTraffic(p)
         \/ PreviewSteps(p) \/ CleanupSteps(p) \/ StatusSteps(p) \/ Respond(p)
    \/ DeploymentController
    \/ WaitSteps

SpecStatus == Init /\ [][NextStatus]_vars

\* one request at a time for one PR, three targets, allow-listed actor
OnePRTraffic(p) ==
    /\ \A q \in Procs : pc[q] = "idle"
    /\ NoWaits
    /\ Request(p, CommandTypes, {NoService, app, web}, coreTeam, {123})

NextOnePR ==
    \/ \E p \in Procs :
        OnePRTraffic(p) \/ PreviewSteps(p) \/ CleanupSteps(p) \/ StatusSteps(p) \/ Respond(p)
    \/ WaitSteps

SpecOnePR == Init /\ [][NextOnePR]_vars

\* previews and cleanups of one PR, default target, with the goroutines of
\* earlier previews still running and the Deployments coming up meanwhile
WaitsTraffic(p) == Request(p, {"preview", "cleanup"}, {NoService}, coreTeam, {123})

NextWaits ==
    \/ \E p \in Procs :
         WaitsTraffic(p) \/ DefaultPreviewSteps(p) \/ CleanupSteps(p) \/ Respond(p)
    \/ Rollout
    \/ WaitSteps

SpecWaits == Init /\ [][NextWaits]_vars

\* the Go scheduler runs every goroutine that can run, and timers fire
SpecWaitsFair ==
    /\ SpecWaits
    /\ \A w \in WaitIds : WF_vars(WaitForDeployment(w)) /\ WF_vars(WaitTimeout(w))

\* the client of request p goes away, or the deadline of the request
\* passes: the context of the request is cancelled while its handler runs
CancelRequest(p) ==
    /\ pc[p] \notin {"idle", "respond"}
    /\ ~ctxDone[p]
    /\ ctxDone' = [ctxDone EXCEPT ![p] = TRUE]
    /\ UNCHANGED <<webhook, query, waits, namespaces, resources, deploymentStatus,
                   pc, cmd, loc, calls, resp>>

\* one command at a time for one PR, and requests that are cancelled midway
CancelTraffic(p) ==
    /\ Quiet
    /\ NoWaits
    /\ Request(p, {"status", "preview", "cleanup"}, {NoService, app}, coreTeam, {123})

NextCancel ==
    \/ \E p \in Procs :
         \/ CancelTraffic(p) \/ CancelRequest(p)
         \/ PreviewSteps(p) \/ CleanupSteps(p) \/ StatusSteps(p) \/ Respond(p)
    \/ WaitSteps

SpecCancel == Init /\ [][NextCancel]_vars

\* previews and cleanups of one PR, one at a time, for every manifest of
\* the checkout
ManifestTraffic(p) ==
    /\ Quiet
    /\ NoWaits
    /\ Request(p, {"preview", "cleanup"}, {NoService, app, db, log, api}, coreTeam, {123})

NextManifest ==
    \/ \E p \in Procs :
         ManifestTraffic(p) \/ PreviewSteps(p) \/ CleanupSteps(p) \/ Respond(p)
    \/ WaitSteps

SpecManifest == Init /\ [][NextManifest]_vars

\* previews and cleanups of one PR, one at a time, for the manifests that
\* put ingestion to the test
IngestTraffic(p) ==
    /\ Quiet
    /\ NoWaits
    /\ Request(p, {"preview", "cleanup"}, {NoService, log, dup, old, web}, coreTeam, {123})

NextIngest ==
    \/ \E p \in Procs :
         IngestTraffic(p) \/ PreviewSteps(p) \/ CleanupSteps(p) \/ Respond(p)
    \/ WaitSteps

SpecIngest == Init /\ [][NextIngest]_vars

\* previews and cleanups of one PR, one at a time, for manifests with and
\* without --- inside a line
SplitTraffic(p) ==
    /\ Quiet
    /\ NoWaits
    /\ Request(p, {"preview", "cleanup"}, {NoService, note, db}, coreTeam, {123})

NextSplit ==
    \/ \E p \in Procs :
         SplitTraffic(p) \/ PreviewSteps(p) \/ CleanupSteps(p) \/ Respond(p)
    \/ WaitSteps

SpecSplit == Init /\ [][NextSplit]_vars

\* previews and status requests of one PR, one at a time, for the default
\* target and two targets that differ in '/' and '-'.  The cluster may refuse
\* any create call (Faults), a namespace whose service label it finds
\* invalid included
NamesTraffic(p) ==
    /\ Quiet
    /\ NoWaits
    /\ Request(p, {"preview", "status"}, {NoService, aSlashB, aDashB}, coreTeam, {123})

NextNames ==
    \/ \E p \in Procs :
         NamesTraffic(p) \/ DefaultPreviewSteps(p) \/ StatusSteps(p) \/ Respond(p)
    \/ WaitSteps

SpecNames == Init /\ [][NextNames]_vars

\* ---- comments: white space, a word, a gap, a token, white space ----

Leads == {<<>>, <<" ">>, <<VT, "\n">>}

Words == {patterns[t].word : t \in DOMAIN patterns}

\* near misses of the command words
OtherWords == {<<"/", "H", "e", "l", "p">>, <<"/", "p", "l", "a", "n", "x">>,
               <<"h", "e", "l", "p">>, <<"/">>}

Gaps == {<<" ">>, <<"\t", " ">>}

NoGaps == {<<>>, <<VT>>, <<",">>}

TargetTokens == {<<"a">>, <<"A", "/", "b", "-", "7">>}

OtherTokens == {<<>>, <<"a", "_">>, <<"a", " ", "b">>, <<"a", VT>>}

Tails == {<<>>, <<" ">>, <<"\r", "\n">>}

Comments ==
    {<<>>} \cup
    {l \o w \o g \o t \o e : l \in Leads, w \in Words \cup OtherWords, g \in Gaps \cup NoGaps,
                             t \in TargetTokens \cup OtherTokens, e \in Tails}

\* senders outside the core team, and the request without a user parameter
Strangers == {"", "octocat"}

ParseTraffic(p) ==
    /\ Quiet
    /\ GitHubWebhookQuery(p, Comments, Strangers)

\* comments of every shape, one at a time, on an empty cluster
NextParse ==
    \E p \in Procs : ParseTraffic(p) \/ StatusList(p) \/ Respond(p)

SpecParse == Init /\ [][NextParse]_vars

-----------------------------------------------------------------------------
(* Properties                                                              *)

Last(s) == s[Len(s)]

IsPreviewNs(n) == "preview" \in DOMAIN n.labels

Steps(p) == pc'[p] # pc[p] \/ calls'[p] # calls[p]

Failed(r, message) == ~r.success /\ r.message = message

\* C1: a preview or cleanup of an actor outside the allow-list is answered
\* success=false "Access denied" and has made no cluster call
C1_PermissionGate ==
    \A p \in Procs :
        (cmd[p].type \in {"preview", "cleanup"} /\ cmd[p].user \notin coreTeam)
        => /\ pc[p] = "respond"
           /\ Failed(resp[p], "Access denied")
           /\ calls[p] = <<>>

C1_Witness ==
    \E p \in Procs, q \in Procs :
        /\ cmd[p].type = "cleanup" /\ cmd[p].user = "testuser" /\ pc[p] = "respond"
        /\ cmd[q].type = "preview" /\ cmd[q].user = "testuser" /\ cmd[q].service = app
        /\ \E n \in namespaces : IsPreviewNs(n)

\* the PreviewNamespaces of a (PR id, service name) pair, by their labels
NamespacesOf(prNumber, service) ==
    {n \in namespaces : /\ IsPreviewNs(n)
                        /\ n.labels["pr-number"] = FormatInt(prNumber)
                        /\ n.labels["service"] = service}

AtMostOnePerPair ==
    \A prNumber \in PRNumbers, service \in Targets \cup {nginx, nginxTest} :
        Cardinality(NamespacesOf(prNumber, service)) <= 1

\* a preview whose (PR, service) namespace exists is turned down at its
\* namespace creation and leaves the namespaces as they are
DuplicateRejected ==
    \A p \in Procs :
        (/\ pc[p] = "preview_ns"
         /\ Steps(p)
         /\ NamespacesOf(cmd[p].pr, loc[p].serviceName) # {})
        => /\ pc'[p] = "respond"
           /\ Failed(resp'[p], "Preview deployment failed")
           /\ namespaces' = namespaces
           /\ resources' = resources

\* C2: at most one PreviewNamespace exists per (PR id, service name) in every
\* reachable state of interleaved previews and cleanups, and a preview of a
\* pair whose namespace exists is rejected at namespace creation
C2_OneNamespacePerPair == []AtMostOnePerPair /\ [][DuplicateRejected]_vars

C2_Witness ==
    \E p \in Procs :
        /\ cmd[p].type = "preview" /\ pc[p] = "respond"
        /\ Failed(resp[p], "Preview deployment failed")
        /\ resp[p].cause = "AlreadyExists"
        /\ Cardinality(NamespacesOf(cmd[p].pr, loc[p].serviceName)) = 1

IsPreview(p) == cmd[p].type = "preview"

OkCalls(p, op) == {i \in 1..Len(calls[p]) : calls[p][i].op = op /\ calls[p][i].err = ""}

\* the message that names the step the last call of p belongs to
StepMessage(p) ==
    LET op == Last(calls[p]).op
    IN CASE op = "CreateNamespace" -> "Preview deployment failed"
         [] op = "ParseManifestFile" -> "Manifest parsing failed"
         [] op # "CreateNamespace" /\ op # "ParseManifestFile" /\ loc[p].isManifest
              -> "Manifest deployment failed"
         [] op = "CreateDeployment" /\ ~loc[p].isManifest -> "Pod deployment failed"
         [] op = "CreateService" /\ ~loc[p].isManifest -> "Service creation failed"

Attempted(p) == IsPreview(p) /\ calls[p] # <<>>

Created(p) == Attempted(p) /\ calls[p][1].err = ""

\* of two previews of one namespace at most one has created it; the other
\* is answered with the namespace failure after its single call
OneWinner ==
    \A p \in Procs, q \in Procs :
        (p # q /\ Attempted(p) /\ Attempted(q)
         /\ loc[p].namespaceName = loc[q].namespaceName)
        => /\ ~(Created(p) /\ Created(q))
           /\ ~Created(q) => /\ pc[q] = "respond"
                             /\ Failed(resp[q], "Preview deployment failed")
                             /\ Len(calls[q]) = 1

\* the cluster accepts the creation of a namespace that does not exist
FirstWins ==
    \A p \in Procs :
        (/\ pc[p] = "preview_ns" /\ Steps(p)
         /\ NsNamed(namespaces, loc[p].namespaceName) = {}
         /\ Last(calls'[p]).err # "Unavailable")
        => /\ NsNamed(namespaces', loc[p].namespaceName) # {}
           /\ pc'[p] # "respond"

\* C4: of two concurrent previews of the same PR and service exactly one
\* creates the namespace; the other is rejected, fails at namespace creation,
\* is not retried and makes no workload or service call
C4_ConcurrentPreviews == []OneWinner /\ [][FirstWins]_vars

C4_Witness ==
    \E p \in Procs, q \in Procs :
        /\ p # q /\ Created(p) /\ Attempted(q) /\ ~Created(q)
        /\ pc[p] \in {"preview_pod", "preview_parse"}
        /\ loc[p].namespaceName = loc[q].namespaceName
        /\ resp[q].cause = "AlreadyExists"

\* the conventional manifest paths of a service name
ConventionalPaths(service) ==
    {<<dir>> \o service \o <<ext>> :
        dir \in {"k8s/", "kubernetes/", "manifests/", "deploy/"},
        ext \in {".yaml", ".yml", "-deployment.yaml"}}

C6_NoRollback ==
    \A p \in Procs : IsPreview(p) =>
        /\ \A i \in 1..Len(calls[p]) : calls[p][i].op # "DeleteNamespace"
        /\ (pc[p] = "respond" /\ ~resp[p].success /\ Created(p))
           => /\ NsNamed(namespaces, loc[p].namespaceName) # {}
              /\ \A i \in 2..Len(calls[p]) :
                   (calls[p][i].op # "ParseManifestFile" /\ calls[p][i].err = "")
                   => calls[p][i].target \in resources

C6_Witness ==
    \E p \in Procs, q \in Procs :
        /\ IsPreview(p) /\ Failed(resp[p], "Manifest deployment failed") /\ Len(calls[p]) = 4
        /\ IsPreview(q) /\ Failed(resp[q], "Service creation failed")
        /\ Obj(loc[q].namespaceName, "Deployment", loc[q].cleanServiceName) \in resources

Listed(n, prNumber) ==
    \E i \in 1..Len(GetPreviewNamespacesByPR(namespaces, prNumber)) :
        GetPreviewNamespacesByPR(namespaces, prNumber)[i].name = n.name

\* a namespace made by a preview carries the four ownership labels
LabelledOnCreate ==
    \A p \in Procs :
        (pc[p] = "preview_ns" /\ Steps(p) /\ namespaces' # namespaces)
        => \E n \in namespaces' \ namespaces :
             /\ n.name = loc[p].namespaceName
             /\ {"preview", "pr-number", "service", "created-by"} \subseteq DOMAIN n.labels
             /\ n.labels["preview"] = <<"true">>
             /\ n.labels["pr-number"] = FormatInt(cmd[p].pr)
             /\ n.labels["service"] = loc[p].serviceName
             /\ n.labels["created-by"] = <<"pr-previews">>

\* while it exists, a preview namespace is in the listing of its PR only
ListedByOwnPROnly ==
    \A n \in namespaces : IsPreviewNs(n) =>
        \A prNumber \in PRNumbers :
            Listed(n, prNumber)
            <=> \E service \in {nginx, nginxTest} : n.name = NamespaceName(prNumber, service)

\* C7: preview(pr, target) labels its namespace preview=true, pr-number=pr,
\* service and created-by; from creation to deletion the namespace is in
\* the by-PR listing of pr and in the listing of no other PR
C7_LabelOwnership == []ListedByOwnPROnly /\ [][LabelledOnCreate]_vars

C7_Witness ==
    /\ \A prNumber \in PRNumbers :
         \E n \in namespaces : IsPreviewNs(n) /\ Listed(n, prNumber)
    /\ \E p \in Procs :
         /\ cmd[p].type = "cleanup" /\ cmd[p].pr = 7 /\ pc[p] = "cleanup_delete"
         /\ Len(loc[p].todo) = 1

Returns(p) == pc[p] # "respond" /\ pc'[p] = "respond"

NoneListed(prNumber) == GetPreviewNamespacesByPR(namespaces, prNumber) = <<>>

ListedFine(p) == Steps(p) /\ Last(calls'[p]).err = ""

CleanupIsComplete ==
    \A p \in Procs :
        (cmd[p].type = "cleanup" /\ Returns(p) /\ resp'[p].success)
        => GetPreviewNamespacesByPR(namespaces', cmd[p].pr) = <<>>

StatusOfNoneIsEmpty ==
    \A p \in Procs :
        (pc[p] = "status_list" /\ NoneListed(cmd[p].pr) /\ ListedFine(p))
        => /\ pc'[p] = "respond" /\ resp'[p].success
           /\ resp'[p].data["active_previews"] = <<>>
           /\ resp'[p].data["total_previews"] = 0

CleanupOfNoneIsNoop ==
    \A p \in Procs :
        (pc[p] = "cleanup_list" /\ NoneListed(cmd[p].pr) /\ ListedFine(p))
        => /\ pc'[p] = "respond" /\ resp'[p].success
           /\ resp'[p].message = "Nothing to cleanup"
           /\ Len(calls'[p]) = 1
           /\ namespaces' = namespaces /\ resources' = resources

\* C8: with commands handled one at a time and list calls answered, a
\* cleanup(pr) that returns success leaves no namespace listed for pr; a
\* status(pr) of a PR with none reports an empty list, and a cleanup(pr) of
\* a PR with none returns success "Nothing to cleanup" and deletes nothing
C8_CleanupIdempotent ==
    [][CleanupIsComplete /\ StatusOfNoneIsEmpty /\ CleanupOfNoneIsNoop]_vars

C8_Witness ==
    \E p \in Procs :
        /\ cmd[p].type = "cleanup" /\ pc[p] = "respond"
        /\ resp[p].success /\ resp[p].message = "Cleanup completed"
        /\ resp[p].data["total_cleaned"] = 2
        /\ NoneListed(cmd[p].pr)
        /\ \E n \in namespaces : IsPreviewNs(n)

HasKey(data, key) == data # NoData /\ key \in DOMAIN data

\* C9: a cleanup(pr) of an allow-listed actor that found no namespace of
\* pr returns success with an empty cleaned_namespaces list in its data and
\* has made no delete call
C9_EmptyCleanedList ==
    \A p \in Procs :
        (/\ cmd[p].type = "cleanup" /\ cmd[p].user \in coreTeam
         /\ pc[p] = "respond"
         /\ Len(calls[p]) = 1 /\ calls[p][1].err = ""
         /\ NoneListed(cmd[p].pr))
        => /\ resp[p].success
           /\ HasKey(resp[p].data, "cleaned_namespaces")
           /\ resp[p].data["cleaned_namespaces"] = <<>>
           /\ \A i \in 1..Len(calls[p]) : calls[p][i].op # "DeleteNamespace"

\* the namespaces the cleanup of p has deleted
DeletedBy(p) ==
    {calls[p][i].target : i \in OkCalls(p, "DeleteNamespace")}

\* C10: the cleaned_namespaces of a completed cleanup holds every namespace
\* that cleanup deleted, and total_cleaned is their number
C10_ReportsWhatItDeleted ==
    \A p \in Procs :
        (/\ cmd[p].type = "cleanup" /\ pc[p] = "respond"
         /\ resp[p].success /\ HasKey(resp[p].data, "cleaned_namespaces"))
        => /\ \A name \in DeletedBy(p) :
                \E i \in 1..Len(resp[p].data["cleaned_namespaces"]) :
                    resp[p].data["cleaned_namespaces"][i] = name
           /\ resp[p].data["total_cleaned"] = Cardinality(DeletedBy(p))

IsCleanup(p) == cmd[p].type = "cleanup"

\* a failed deletion is the last call of its cleanup, which has returned
\* "Cleanup failed" with the cause; what it deleted before is gone and the
\* namespaces listed after the failing one are still there
StopsAtFirstFailure ==
    \A p \in Procs : IsCleanup(p) =>
        \A i \in 1..Len(calls[p]) :
            (calls[p][i].op = "DeleteNamespace" /\ calls[p][i].err # "")
            => /\ i = Len(calls[p])
               /\ pc[p] = "respond"
               /\ Failed(resp[p], "Cleanup failed")
               /\ resp[p].cause = calls[p][i].err
               /\ \A name \in DeletedBy(p) : NsNamed(namespaces, name) = {}
               /\ \A j \in 2..Len(loc[p].todo) : NsNamed(namespaces, loc[p].todo[j]) # {}

\* no step of a cleanup creates a namespace or an object
NothingRecreated ==
    \A p \in Procs :
        (IsCleanup(p) /\ Steps(p))
        => namespaces' \subseteq namespaces /\ resources' \subseteq resources

\* C11: a namespace deletion that fails makes cleanup(pr) return
\* success=false "Cleanup failed" with the cause; the namespaces deleted
\* before stay deleted, nothing is re-created, and the namespaces after the
\* failing one are untouched because the loop stops at the first failure
C11_CleanupStopsAtFailure == []StopsAtFirstFailure /\ [][NothingRecreated]_vars

C11_Witness ==
    \E p \in Procs :
        /\ IsCleanup(p) /\ pc[p] = "respond" /\ Failed(resp[p], "Cleanup failed")
        /\ Len(calls[p]) = 4 /\ calls[p][3].err = "" /\ calls[p][4].err = "Unavailable"
        /\ Len(loc[p].todo) = 2
        /\ NsNamed(namespaces, calls[p][3].target) = {}
        /\ NsNamed(namespaces, loc[p].todo[2]) # {}

\* every object is in one existing preview namespace
InsideOneNamespace ==
    \A o \in resources :
        /\ Cardinality(NsNamed(namespaces, o.ns)) = 1
        /\ \A n \in NsNamed(namespaces, o.ns) : IsPreviewNs(n)

\* an object a preview creates goes into the namespace of its PR and target
CreatedInOwnNamespace ==
    \A p \in Procs :
        (IsPreview(p) /\ Steps(p))
        => \A o \in resources' \ resources :
             /\ o.ns = NamespaceName(cmd[p].pr, ReplaceAll(loc[p].serviceName, "/", "-"))
             /\ \A n \in NsNamed(namespaces', o.ns) :
                  /\ n.labels["pr-number"] = FormatInt(cmd[p].pr)
                  /\ n.labels["service"] = loc[p].serviceName

\* an object goes away only with its namespace, in a namespace deletion
RemovedWithNamespaceOnly ==
    /\ \A o \in resources \ resources' : NsNamed(namespaces', o.ns) = {}
    /\ \A p \in Procs :
         (IsCleanup(p) /\ Len(calls'[p]) > Len(calls[p]))
         => Last(calls'[p]).op \in {"ListNamespaces", "DeleteNamespace"}

\* C12: every workload, service and config object is inside exactly one
\* existing preview namespace, that of the PR and target of the preview
\* which created it; cleanup removes objects only by deleting namespaces
C12_NamespaceScoped ==
    []InsideOneNamespace /\ [][CreatedInOwnNamespace /\ RemovedWithNamespaceOnly]_vars

C12_Witness ==
    \E p \in Procs, q \in Procs :
        /\ IsCleanup(p) /\ pc[p] = "cleanup_delete" /\ DeletedBy(p) # {}
        /\ IsPreview(q) /\ pc[q] = "respond" /\ resp[q].success
        /\ \E o \in resources : o.kind = "Service" /\ o.ns = loc[q].namespaceName

IsStatus(p) == cmd[p].type = "status"

\* C13: a status(pr) whose listing was answered while no namespace of pr
\* exists returns success=true with active_previews empty and
\* total_previews = 0
C13_StatusOfNothing ==
    \A p \in Procs :
        (/\ IsStatus(p) /\ pc[p] = "respond"
         /\ calls[p][1].err = ""
         /\ NoneListed(cmd[p].pr))
        => /\ resp[p].success
           /\ resp[p].message = "No preview environments found"
           /\ HasKey(resp[p].data, "active_previews")
           /\ resp[p].data["active_previews"] = <<>>
           /\ resp[p].data["total_previews"] = 0
           /\ resp[p].data["pr_number"] = cmd[p].pr
           /\ Len(calls[p]) = 1

C13_Witness ==
    \E p \in Procs :
        /\ IsStatus(p) /\ pc[p] = "respond" /\ cmd[p].user = "testuser" /\ cmd[p].pr = 7
        /\ resp[p].success /\ NoneListed(7)
        /\ ~NoneListed(123)

FailedCalls(p, op) == {i \in 1..Len(calls[p]) : calls[p][i].op = op /\ calls[p][i].err # ""}

\* C14: a status(pr) whose listing was answered returns success=true with
\* one entry per listed namespace of pr, in list order, and total_previews
\* their number, whatever the workload and service reads returned
C14_PartialStatus ==
    \A p \in Procs :
        (IsStatus(p) /\ pc[p] = "respond" /\ calls[p][1].err = "")
        => LET listed == GetPreviewNamespacesByPR(namespaces, cmd[p].pr)
               entries == resp[p].data["active_previews"]
           IN /\ resp[p].success
              /\ resp[p].data["total_previews"] = Len(listed)
              /\ Len(entries) = Len(listed)
              /\ \A i \in 1..Len(listed) : entries[i].name = listed[i].name

C14_Witness ==
    \E p \in Procs :
        /\ IsStatus(p) /\ pc[p] = "respond" /\ resp[p].success
        /\ resp[p].data["total_previews"] = 3
        /\ FailedCalls(p, "GetDeployment") # {}
        /\ FailedCalls(p, "GetService") # {}
        /\ OkCalls(p, "GetDeployment") # {}

\* the keys under which an entry of active_previews records a sub-resource
WorkloadRecorded(entry) == "deployment_status" \in DOMAIN entry

ServiceRecorded(entry) == "service_info" \in DOMAIN entry

\* C15: every entry of the active_previews of a status(pr) records both
\* the workload and the service of its namespace, live or as none
C15_BothSubResourcesRecorded ==
    \A p \in Procs :
        (IsStatus(p) /\ pc[p] = "respond" /\ resp[p].success)
        => \A i \in 1..Len(resp[p].data["active_previews"]) :
             /\ WorkloadRecorded(resp[p].data["active_previews"][i])
             /\ ServiceRecorded(resp[p].data["active_previews"][i])

AllAnswered(p) == \A i \in 1..Len(calls[p]) : calls[p][i].err \in {"", "NotFound"}

EntryOf(p, name) ==
    {resp[p].data["active_previews"][i] : i \in
        {j \in 1..Len(resp[p].data["active_previews"]) :
            resp[p].data["active_previews"][j].name = name}}

ReadOps == {"ListNamespaces", "GetDeployment", "GetService"}

\* a step of a status request changes nothing in the cluster and makes a
\* list or get call only
StatusOnlyReads ==
    \A p \in Procs :
        (IsStatus(p) /\ Steps(p))
        => /\ namespaces' = namespaces
           /\ resources' = resources
           /\ deploymentStatus' = deploymentStatus
           /\ Len(calls'[p]) > Len(calls[p]) => Last(calls'[p]).op \in ReadOps

\* a request that has been answered leaves nothing behind
NothingKept ==
    \A p \in Procs :
        pc[p] = "idle" => loc[p] = NoLocals /\ calls[p] = <<>> /\ resp[p] = NoResp

\* C18: status(pr) of any actor leaves the cluster unchanged, makes only
\* list and get calls, and keeps no state between requests
C18_StatusReadOnly == []NothingKept /\ [][StatusOnlyReads]_vars

C18_Witness ==
    \E p \in Procs :
        /\ IsStatus(p) /\ cmd[p].user = "testuser" /\ pc[p] = "respond"
        /\ OkCalls(p, "GetDeployment") # {} /\ FailedCalls(p, "GetService") # {}
        /\ Len(calls[p]) = 5
        /\ Cardinality(resources) >= 3

ClusterUnchanged ==
    /\ namespaces' = namespaces /\ resources' = resources
    /\ deploymentStatus' = deploymentStatus

\* C19: a plan of any actor and any target returns success=true at once,
\* has made no cluster call, and leaves the cluster as it was
C19_PlanIsPure ==
    /\ [](\A p \in Procs :
            cmd[p].type = "plan"
            => /\ pc[p] = "respond" /\ resp[p].success
               /\ resp[p].message = "Deployment plan generated"
               /\ calls[p] = <<>>)
    /\ [][\A p \in Procs :
            (cmd'[p].type = "plan" /\ cmd[p].type # "plan") => ClusterUnchanged]_vars

C19_Witness ==
    \E p \in Procs :
        /\ cmd[p].type = "plan" /\ cmd[p].user = "testuser" /\ cmd[p].service = ghost
        /\ pc[p] = "respond" /\ resp[p].success
        /\ resp[p].data["services"] = <<ghost>>
        /\ \E n \in namespaces : IsPreviewNs(n)

\* C20: help of any actor returns success=true with available_commands
\* exactly help, status, plan, preview and cleanup, and has made no cluster
\* call
C20_HelpListsCommands ==
    \A p \in Procs :
        cmd[p].type = "help"
        => /\ pc[p] = "respond" /\ resp[p].success
           /\ Len(resp[p].data["available_commands"]) = 5
           /\ {resp[p].data["available_commands"][i] : i \in 1..5}
              = {"help", "status", "plan", "preview", "cleanup"}
           /\ calls[p] = <<>>

C20_Witness ==
    \E p \in Procs :
        /\ cmd[p].type = "help" /\ cmd[p].user = "testuser"
        /\ pc[p] = "respond" /\ resp[p].success
        /\ ~resp[p].data["user_permissions"].can_deploy
        /\ \E n \in namespaces : IsPreviewNs(n)

\* ---- the command grammar ----

\* the requests that carry a comment and have been taken up
Commented == {p \in Procs : pc[p] # "idle" /\ query[p].comment # <<>>}

\* the user the webhook passes to ParseCommand
PassedUser(q) == IF q.user = "" THEN "testuser" ELSE q.user

ParseFailed(p) ==
    /\ cmd[p] = NoCmd /\ pc[p] = "respond"
    /\ Failed(resp[p], "Command parsing failed") /\ resp[p].cause = "unknown command"

\* C21: a comment whose trimmed form matches none of the five patterns gets
\* the unknown-command error and no intent at all; a comment that matches
\* gets an intent of a matching kind that carries the user and the PR number
\* passed in
C21_UnknownOrIntact ==
    \A p \in Commented :
        IF Matching(query[p].comment) = {}
        THEN ParseFailed(p)
        ELSE /\ cmd[p].type \in Matching(query[p].comment)
             /\ cmd[p].user = PassedUser(query[p])
             /\ cmd[p].pr = 123

C21_Witness ==
    \E p \in Commented :
        /\ query[p].comment = <<" ", "/", "p", "l", "a", "n", "x", " ", "a">>
        /\ query[p].user = "octocat"
        /\ ParseFailed(p)

\* C22: no comment matches two of the five patterns, so the order in which
\* the patterns are tried does not matter: ParseCommand has one possible
\* result for every comment
C22_OnePatternAtMost ==
    \A p \in Commented :
        /\ Cardinality(Matching(query[p].comment)) <= 1
        /\ Cardinality(ParseCommand(query[p].comment, PassedUser(query[p]), 123)) = 1

C22_Witness ==
    \E p \in Commented :
        /\ query[p].comment = <<"/", "p", "l", "a", "n", "\t", " ", "a", "\r", "\n">>
        /\ Matching(query[p].comment) = {"plan"}
        /\ cmd[p].type = "plan" /\ cmd[p].service = <<"a">>

\* the target tokens typed after word in comment c, between white space
TargetTyped(c, word) ==
    {t \in TargetTokens : \E l \in Leads, g \in Gaps, e \in Tails : c = l \o word \o g \o t \o e}

NothingTyped(c, word) ==
    \E l \in Leads, e \in Tails \cup Gaps : c = l \o word \o e

\* C23: the target of a parsed /preview <target> or /plan <target> is the
\* token as typed, case preserved, without the white space around it; when
\* no token is typed the target is empty
C23_TargetAsTyped ==
    \A p \in Commented : \A type \in {"plan", "preview"} :
        /\ \A t \in TargetTyped(query[p].comment, patterns[type].word) :
              cmd[p].type = type /\ cmd[p].service = t
        /\ NothingTyped(query[p].comment, patterns[type].word)
              => cmd[p].type = type /\ cmd[p].service = NoService

C23_Witness ==
    \E p \in Commented :
        /\ query[p].comment = <<VT, "\n", "/", "p", "r", "e", "v", "i", "e", "w", " ",
                                "A", "/", "b", "-", "7", " ">>
        /\ cmd[p].type = "preview"
        /\ cmd[p].service = <<"A", "/", "b", "-", "7">>

IsGap(s) == s # <<>> /\ \A i \in 1..Len(s) : s[i] \in ReSpace

IsTarget(s) == s # <<>> /\ \A i \in 1..Len(s) : s[i] \in TargetChars

\* the target tokens t for which the trimmed comment c is word, a gap, t
TargetsAfter(c, word) ==
    {SubSeq(c, k + 1, Len(c)) :
        k \in {k \in (Len(word) + 1)..(Len(c) - 1) :
                 /\ HasPrefix(c, word)
                 /\ IsGap(SubSeq(c, Len(word) + 1, k))
                 /\ IsTarget(SubSeq(c, k + 1, Len(c)))}}

CommandWord == [t \in CommandTypes |-> <<"/">> \o
                  (CASE t = "help" -> <<"h", "e", "l", "p">>
                     [] t = "status" -> <<"s", "t", "a", "t", "u", "s">>
                     [] t = "plan" -> <<"p", "l", "a", "n">>
                     [] t = "preview" -> <<"p", "r", "e", "v", "i", "e", "w">>
                     [] t = "cleanup" -> <<"c", "l", "e", "a", "n", "u", "p">>)]

ParsedAs(p, type, target) == cmd[p].type = type /\ cmd[p].service = target

\* C24 as stated: each of the five command words followed by a gap and a
\* target token parses into an intent of that kind with that target
C24_EveryWordTakesTarget ==
    \A p \in Commented : \A type \in CommandTypes :
        \A t \in TargetsAfter(TrimSpace(query[p].comment), CommandWord[type]) :
            ParsedAs(p, type, t)

\* C24: /plan and /preview may be followed by a gap and one target token over
\* [A-Za-z0-9/-], and parse into that kind with that target; each of the five
\* words alone parses into its kind without target; every other comment,
\* /help, /status or /cleanup followed by a token included, does not parse
C24_PlanAndPreviewTakeTarget ==
    \A p \in Commented :
        LET c == TrimSpace(query[p].comment)
        IN /\ \A type \in {"plan", "preview"} : \A t \in TargetsAfter(c, CommandWord[type]) :
                 ParsedAs(p, type, t)
           /\ \A type \in CommandTypes : c = CommandWord[type] => ParsedAs(p, type, NoService)
           /\ (/\ \A type \in CommandTypes : c # CommandWord[type]
               /\ \A type \in {"plan", "preview"} : TargetsAfter(c, CommandWord[type]) = {})
              => ParseFailed(p)

C24_Witness ==
    \E p \in Commented :
        /\ query[p].comment = <<"/", "s", "t", "a", "t", "u", "s", " ", "a">>
        /\ TargetsAfter(query[p].comment, CommandWord["status"]) = {<<"a">>}
        /\ ParseFailed(p)

\* ---- the readiness wait ----

Polling(w) == waits[w].state = "polling"

\* the goroutines this step starts for the workload of request p
StartedFor(p) ==
    {w \in WaitIds : /\ waits[w] = NoWait
                     /\ waits'[w].state = "polling"
                     /\ waits'[w].namespace = loc[p].namespaceName
                     /\ waits'[w].name = loc[p].cleanServiceName}

PreviewSucceeds(p) ==
    /\ cmd[p].type = "preview" /\ pc[p] # "respond"
    /\ pc'[p] = "respond" /\ resp'[p].success

\* C25 as stated: the step by which a preview returns success starts exactly
\* one readiness wait for the workload it deployed, and the response is
\* tagged deploying
C25_SuccessStartsOneWait ==
    [][\A p \in Procs :
          PreviewSucceeds(p)
          => /\ Cardinality(StartedFor(p)) = 1
             /\ resp'[p].data["status"] = "deploying"]_vars

\* C26 as stated: the end of the triggering request does not stop the
\* wait: no wait ends because the context it was given is cancelled
C26_WaitIsDetached ==
    \A w \in WaitIds : waits[w].state = "error" => waits[w].cause # "context canceled"

WaitTarget(w) == Obj(waits[w].namespace, "Deployment", waits[w].name)

Polled(w) == Polling(w) /\ (waits'[w].state # "polling" \/ waits'[w].polls # waits[w].polls)

\* what one step may do to a wait that is polling
WaitStepOK(w) ==
    /\ waits'[w].state = "ready"
          => WaitTarget(w) \in resources /\ IsReady(deploymentStatus[WaitTarget(w)])
    /\ waits'[w].state = "error" => waits'[w].cause \in Errors
    /\ waits'[w].state = "timeout" => waits[w].polls = MaxPolls
    /\ waits'[w].state = "polling"
          => /\ waits'[w].polls \in {waits[w].polls, waits[w].polls + 1}
             /\ waits'[w].polls <= MaxPolls
             /\ waits'[w].polls # waits[w].polls
                   => /\ WaitTarget(w) \in resources
                      /\ ~IsReady(deploymentStatus[WaitTarget(w)])
                      /\ waits[w].ctx # 0
    /\ waits'[w] # NoWait
    /\ Polled(w) => ClusterUnchanged

\* C27: a wait ends with success only at a poll that reads ready = total > 0,
\* polls again only after a read that succeeded and was not ready, ends with
\* an error at a failed read, ends at its timeout after the polls that fit in
\* it and never polls beyond, changes nothing in the cluster, and every wait
\* ends
C27_WaitTerminates ==
    /\ [][\A w \in WaitIds : Polling(w) => WaitStepOK(w)]_vars
    /\ \A w \in WaitIds : Polling(w) ~> ~Polling(w)

C27_Witness ==
    \E w \in WaitIds, v \in WaitIds :
        /\ waits[w].state = "timeout"
        /\ waits[v].state = "ready"

\* ---- cancellation and retries ----

\* the calls of request p that met a cancelled context
CancelledCalls(p) == {i \in DOMAIN calls[p] : calls[p][i].err = "context canceled"}

\* C28 as stated: once the context of a status, preview or cleanup is
\* cancelled every later cluster call of the command fails, and the command
\* returns success=false for the step it was at
C28_CancelledCommandFails ==
    \A p \in Procs : \A i \in CancelledCalls(p) :
        /\ \A j \in DOMAIN calls[p] : j > i => j \in CancelledCalls(p)
        /\ pc[p] = "respond" => ~resp[p].success /\ resp[p].cause = "context canceled"

MutatingOps == {"CreateNamespace", "CreateDeployment", "CreateService", "CreateConfigMap",
                "DeleteNamespace"}

\* C29: within one preview or cleanup no creation and no deletion is
\* attempted twice on the same object, and a call that fails is the last
\* call of the command, which returns success=false with the cause of that
\* call
C29_NoRetry ==
    \A p \in Procs :
        cmd[p].type \in {"preview", "cleanup"}
        => /\ \A i, j \in DOMAIN calls[p] :
                 (i < j /\ calls[p][i].op \in MutatingOps /\ calls[p][i].op = calls[p][j].op)
                 => calls[p][i].target # calls[p][j].target
           /\ \A i \in DOMAIN calls[p] :
                 calls[p][i].err # ""
                 => /\ i = Len(calls[p])
                    /\ pc[p] = "respond"
                    /\ ~resp[p].success
                    /\ resp[p].cause = calls[p][i].err

C29_Witness ==
    \E p \in Procs :
        /\ cmd[p].type = "preview"
        /\ Len(calls[p]) = 3
        /\ calls[p][3].op = "CreateService" /\ calls[p][3].err = "Unavailable"
        /\ pc[p] = "respond" /\ resp[p].cause = "Unavailable"

\* ---- manifest ingestion ----

\* the ParseManifestFile calls request p has made on a file that exists
Ingested(p) ==
    {i \in DOMAIN calls[p] : calls[p][i].op = "ParseManifestFile"
                             /\ FileExists(calls[p][i].target)}

\* the documents of a file whose kind is missing or not one of the three
WithoutKnownKind(docs) == {i \in DOMAIN docs : docs[i].kind \notin SupportedKinds}

Total(parsed) == Len(parsed.Deployments) + Len(parsed.Services) + Len(parsed.ConfigMaps)

\* C30 as stated: ingesting a readable file with N documents of which M have
\* an unrecognized or missing kind does not fail and returns N - M entries
C30_AllKnownKindsIngested ==
    \A p \in Procs : \A i \in Ingested(p) :
        LET docs == RepoFiles[calls[p][i].target]
        IN /\ calls[p][i].err = ""
           /\ Total(loc[p].parsed) = Len(docs) - Cardinality(WithoutKnownKind(docs))

\* a document that ingestion can append: a supported kind in the version of
\* its typed object, with a body that decodes
Ingestible(d) == d.kind \in SupportedKinds /\ d.valid /\ d.apiVersion = GroupVersion(d.kind)

KindList(parsed, kind) ==
    CASE kind = "Deployment" -> parsed.Deployments
      [] kind = "Service" -> parsed.Services
      [] kind = "ConfigMap" -> parsed.ConfigMaps

\* the requests whose manifest has been ingested
Parsed == {p \in Procs : \E i \in Ingested(p) : calls[p][i].err = ""}

ManifestOf(p) == RepoFiles[loc[p].manifestPath]

\* C31: two documents of the same recognized kind and name are both in the
\* collection of that kind, in manifest order: the collection is the
\* manifest's ingestible documents of the kind, none dropped, none reordered
C31_NoDeduplication ==
    \A p \in Parsed : \A kind \in SupportedKinds :
        LET docs == ManifestOf(p)
            at == {i \in DOMAIN docs : docs[i].kind = kind /\ Ingestible(docs[i])}
            list == KindList(loc[p].parsed, kind)
        IN /\ Len(list) = Cardinality(at)
           /\ \A k \in DOMAIN list :
                 \E i \in at : /\ list[k] = docs[i]
                               /\ Cardinality({j \in at : j < i}) = k - 1

C31_Witness ==
    \E p \in Parsed :
        /\ loc[p].manifestPath = <<"k8s/">> \o dup \o <<".yaml">>
        /\ Len(loc[p].parsed.Deployments) = 2
        /\ loc[p].parsed.Deployments[1].name = loc[p].parsed.Deployments[2].name
        /\ loc[p].parsed.Deployments[1].image = "nginx:1"
        /\ loc[p].parsed.Deployments[2].image = "nginx:2"

\* the documents ingestion has to skip: no kind, or a recognized kind with a
\* body that does not decode
BadAt(docs) ==
    {i \in DOMAIN docs : \/ docs[i].kind = ""
                         \/ docs[i].kind \in SupportedKinds /\ ~docs[i].valid}

\* the valid documents: a recognized kind with a body that decodes
ValidAt(docs) == {i \in DOMAIN docs : docs[i].kind \in SupportedKinds /\ docs[i].valid}

Kept(p, d) == \E k \in DOMAIN KindList(loc[p].parsed, d.kind) :
                  KindList(loc[p].parsed, d.kind)[k] = d

\* C32 as stated: a document without kind or with a malformed body is skipped
\* alone: ingestion of its file does not fail and every valid document of the
\* file, before or after it, is in the ingested set
C32_BadDocumentNeverAborts ==
    \A p \in Procs : \A i \in Ingested(p) :
        LET docs == RepoFiles[calls[p][i].target]
        IN BadAt(docs) # {} =>
              /\ calls[p][i].err = ""
              /\ \A j \in ValidAt(docs) : Kept(p, docs[j])

\* the same on the files whose documents are all in the version of their
\* typed object
BadDocumentSkippedAlone ==
    \A p \in Procs : \A i \in Ingested(p) :
        LET docs == RepoFiles[calls[p][i].target]
        IN (\A j \in ValidAt(docs) : Ingestible(docs[j])) =>
              /\ calls[p][i].err = ""
              /\ \A j \in ValidAt(docs) : Kept(p, docs[j])
              /\ Total(loc[p].parsed) = Cardinality(ValidAt(docs))

\* the kind/name entries of a list of ingested objects
Entries(kind, list) == [i \in DOMAIN list |-> <<kind, list[i].name>>]

\* the target of a preview with '/' replaced by '-'; without a target the
\* enhanced preview deploys nginx
SanitizedTarget(c) == ReplaceAll(IF c.service = <<>> THEN nginx ELSE c.service, "/", "-")

CreatedIn(res, namespace) == {<<o.kind, o.name>> : o \in {r \in res : r.ns = namespace}}

ManifestBacked == {p \in Procs : cmd[p].type = "preview" /\ loc[p].isManifest}

\* C34 as stated: a preview that selects the manifest method has resolved a
\* non-empty path that names an existing file at a conventional path of its
\* target, and ingestion reads that file
C34_MethodAndPathAgree ==
    \A p \in ManifestBacked :
        /\ loc[p].manifestPath # <<>>
        /\ FileExists(loc[p].manifestPath)
        /\ loc[p].manifestPath \in ConventionalPaths(loc[p].serviceName)
        /\ \A i \in DOMAIN calls[p] :
              calls[p][i].op = "ParseManifestFile"
              => calls[p][i].target = loc[p].manifestPath /\ calls[p][i].err # "failed to read manifest file"

\* the documents of a file between its delimiter lines that hold a
\* recognized object, white space apart
WholeAt(docs) == {i \in DOMAIN docs : docs[i].text # "blank" /\ Ingestible(docs[i])}

\* C35 as stated: only delimiter lines separate documents, so a document with
\* --- inside one of its lines is ingested whole, as one entry, and the empty
\* documents are no entries
C35_SplitAtDelimiterLines ==
    \A p \in Parsed :
        LET docs == ManifestOf(p)
        IN /\ \A j \in WholeAt(docs) : Kept(p, docs[j])
           /\ Total(loc[p].parsed) = Cardinality(WholeAt(docs))

\* empty documents are skipped: they are no entries and do not fail the call
EmptyDocumentsSkipped ==
    \A p \in Procs : \A i \in Ingested(p) :
        LET docs == RepoFiles[calls[p][i].target]
        IN (\E j \in DOMAIN docs : docs[j].text = "blank") =>
              /\ calls[p][i].err = ""
              /\ \A kind \in SupportedKinds :
                    \A k \in DOMAIN KindList(loc[p].parsed, kind) :
                        KindList(loc[p].parsed, kind)[k].text # "blank"

\* request p takes its namespace-creation step
CreatesNamespace(p) == pc[p] = "preview_ns" /\ pc'[p] # "preview_ns"

Leftover(name) == NsNamed(namespaces, name) # {}

\* a step that deletes a namespace is the delete step of a cleanup of the
\* PR the namespace is labelled with
DeletedByCleanup(n) ==
    \E p \in Procs : /\ cmd[p].type = "cleanup" /\ pc[p] = "cleanup_delete"
                     /\ calls'[p] # calls[p]
                     /\ Last(calls'[p]).op = "DeleteNamespace"
                     /\ Last(calls'[p]).target = n.name

\* the previews that created their namespace and failed at a later step
FailedPastNamespace ==
    {p \in Procs : /\ cmd[p].type = "preview" /\ pc[p] = "respond" /\ ~resp[p].success
                   /\ \E i \in DOMAIN calls[p] : /\ calls[p][i].op = "CreateNamespace"
                                                 /\ calls[p][i].err = ""}

\* C36: a namespace stays until a cleanup of its PR deletes it, the failing
\* step of a preview included; while it is there, a preview that resolves to
\* it fails at namespace creation and changes neither namespaces nor
\* resources; once it is gone, namespace creation does not meet it any more:
\* unless the cluster call itself fails, the namespace is created and the
\* preview proceeds to its deployment step
C36_RecoveryNeedsCleanup ==
    [][/\ \A n \in namespaces : n.name \notin {m.name : m \in namespaces'} => DeletedByCleanup(n)
       /\ \A p \in Procs :
            CreatesNamespace(p) =>
               IF Leftover(loc[p].namespaceName)
               THEN /\ pc'[p] = "respond" /\ ~resp'[p].success
                    /\ resp'[p].message = "Preview deployment failed"
                    /\ Last(calls'[p]).op = "CreateNamespace" /\ Last(calls'[p]).err # ""
                    /\ namespaces' = namespaces /\ resources' = resources
               ELSE /\ Last(calls'[p]).err # "AlreadyExists"
                    /\ Last(calls'[p]).err = ""
                       => /\ NsNamed(namespaces', loc[p].namespaceName) # {}
                          /\ pc'[p] \in {"preview_parse", "preview_pod"}]_vars

\* a preview failed after it created its namespace, and its re-issue has
\* failed at namespace creation on the leftover
C36_Witness ==
    \E p \in FailedPastNamespace : \E q \in Procs \ {p} :
        /\ cmd[q] = cmd[p] /\ pc[q] = "respond"
        /\ resp[q].message = "Preview deployment failed" /\ resp[q].cause = "AlreadyExists"
        /\ Len(calls[q]) = 1
        /\ Leftover(loc[p].namespaceName)

\* a preview failed after it created its namespace, and after a cleanup its
\* re-issue has created the namespace again and gone on
RecoveredAfterCleanup ==
    \E p \in FailedPastNamespace : \E q \in Procs \ {p} :
        /\ cmd[q] = cmd[p]
        /\ pc[q] = "respond" /\ resp[q].success

\* namespace n carries the labels preview=true and pr-number=prNumber
LabelledFor(n, prNumber) ==
    /\ "preview" \in DOMAIN n.labels /\ n.labels["preview"] = <<"true">>
    /\ "pr-number" \in DOMAIN n.labels /\ n.labels["pr-number"] = FormatInt(prNumber)

Inside(res, n) == {o \in res : o.ns = n.name}

\* C37: a step of a cleanup of a PR, whether it succeeds or fails, leaves
\* every namespace that is not labelled preview=true and pr-number of that
\* PR in place, with the resources inside it
C37_CleanupFrame ==
    [][\A p \in Procs :
          cmd[p].type = "cleanup" /\ Steps(p)
          => \A n \in namespaces :
                ~LabelledFor(n, cmd[p].pr)
                => /\ n \in namespaces'
                   /\ Inside(resources', n) = Inside(resources, n)]_vars

\* a cleanup has deleted a namespace of its PR while a namespace of another
\* PR holds resources
C37_Witness ==
    \E p \in Procs :
        /\ cmd[p].type = "cleanup" /\ pc[p] = "respond"
        /\ \E i \in DOMAIN calls[p] : calls[p][i].op = "DeleteNamespace" /\ calls[p][i].err = ""
        /\ \E n \in namespaces : /\ IsPreviewNs(n) /\ ~LabelledFor(n, cmd[p].pr)
                                 /\ Inside(resources, n) # {}
        /\ \E n \in namespaces : ~IsPreviewNs(n)

\* the namespace of a lookup of status holds an object of the kind looked up
HoldsKind(o) == \E r \in resources : r.ns = o.ns /\ r.kind = o.kind

Lookups(p) == {i \in DOMAIN calls[p] : calls[p][i].op \in {"GetDeployment", "GetService"}}

Undisturbed(p) == \A i \in DOMAIN calls[p] : calls[p][i].err \in {"", "NotFound"}

\* C38 as stated: status looks the workload and the service of a namespace
\* up under the name preview created them with: a lookup in a namespace that
\* holds the object finds it, and in the answer the entry of a namespace
\* that holds its workload carries a deployment status
C38_StatusFindsPreview ==
    \A p \in Procs :
        cmd[p].type = "status" =>
           /\ \A i \in Lookups(p) :
                 HoldsKind(calls[p][i].target)
                 => calls[p][i].target \in resources /\ calls[p][i].err # "NotFound"
           /\ (pc[p] = "respond" /\ resp[p].success /\ Undisturbed(p))
              => \A k \in DOMAIN resp[p].data["active_previews"] :
                    LET e == resp[p].data["active_previews"][k]
                    IN HoldsKind(Obj(e.name, "Deployment", e.service))
                       => "deployment_status" \in DOMAIN e

\* the same for the lookups in namespaces whose target has no '/'
StatusFindsUnslashed ==
    \A p \in Procs :
        cmd[p].type = "status" =>
           \A i \in Lookups(p) :
              LET o == calls[p][i].target
              IN (HoldsKind(o) /\ \A j \in DOMAIN o.name : o.name[j] # "/")
                 => o \in resources /\ calls[p][i].err # "NotFound"

\* the previews that have resolved their namespace name
Resolved == {p \in Procs : cmd[p].type = "preview" /\ loc[p].namespaceName # <<>>}

\* the target of a preview: without one in the command, the default of the
\* handler
TargetOf(p) == loc[p].serviceName

\* C39 as stated: the name a preview resolves is preview-pr-<pr>-<target
\* with '/' replaced by '-'>, and a preview never meets, at namespace
\* creation, the namespace of a preview of another PR or another target
C39_NameInjective ==
    \A p \in Resolved :
        /\ loc[p].namespaceName
             = <<"preview-pr-">> \o FormatInt(cmd[p].pr) \o <<"-">>
               \o ReplaceAll(TargetOf(p), "/", "-")
        /\ \A n \in NsNamed(namespaces, loc[p].namespaceName) :
              /\ n.labels["pr-number"] = FormatInt(cmd[p].pr)
              /\ n.labels["service"] = TargetOf(p)

\* the name is injective over the PR and the sanitized target
NameInjectiveOnSanitized ==
    \A p \in Resolved :
        \A n \in NsNamed(namespaces, loc[p].namespaceName) :
              /\ n.labels["pr-number"] = FormatInt(cmd[p].pr)
              /\ ReplaceAll(n.labels["service"], "/", "-") = ReplaceAll(TargetOf(p), "/", "-")

====
